---------------------------- MODULE Spec2Model ----------------------------
(***************************************************************************)
(* A model of the canvas navigator plugin (breadcrumb navigation, reverse  *)
(* canvas index, card reconciliation).                                     *)
(*                                                                         *)
(* A JavaScript string is a sequence of characters; a character is a TLA+  *)
(* string.  A few multi-character tokens (".md", ".canvas", "Summary       *)
(* text", ...) stand for runs of characters that no pattern of the         *)
(* program can split.  "NL" is the newline character.                      *)
(***************************************************************************)
EXTENDS Integers, Sequences, FiniteSets, TLC

VARIABLES
    \* --- Navigation Path Resolver (getBreadcrumbPath) ---
    bcUp,       \* frontmatter field `up` of every note (metadata cache)
    bcPc,       \* "idle" | "loop" | "done"
    bcStart,    \* currentFile
    bcCurr,     \* curr
    bcSeen,     \* seen
    bcPath,     \* path
    \* --- CanvasReferencesModal.tryZoomToNode ---
    zPc,        \* "idle" | "polling" | "cleared" (the interval's state)
    zIsId,      \* isId: the target is a node id (else a note file)
    zAttempts,  \* attempts
    zView,      \* what the opened view exposes at this moment
    zSelected,  \* canvas.select(foundNode) has been called
    \* --- Reverse Reference Index ---
    files,      \* the vault's canvas files: TFile -> [exists, path, content]
    canvasIndex,\* canvasIndex: canvas path -> set of referenced paths
    tasks,      \* indexSingleCanvas calls suspended on `await vault.read`
    build,      \* buildCanvasIndex: [pc, list, i]
    ixLast,     \* the indexSingleCanvas call that completed in the last step
    \* --- Card Reconciliation Engine ---
    variant,    \* which build runs: "grouped" (part_001) or "sized" (main.ts)
    render,     \* the host's text layout (font metrics), fixed for a run
    canvasFile, \* the content of the canvas file the operations work on
    noteState,  \* note path -> [description, content]: cache and file body
    lastOp,     \* the operation that completed in the last step
    prevOp,     \* a summary of the operation that completed before lastOp
    \* --- autoSyncToCanvases ---
    sweep,      \* the call in flight: [pc, note, related, k, calls, caught]
    \* --- reference scan and neighbour discovery ---
    fm,         \* metadata cache: note path -> frontmatter fields
    answer,     \* the query asked or answered in the last step: [fn, in, out]
    \* --- reconciliation calls that overlap on one canvas ---
    ops         \* [call, done]: caller -> its call, and the callers that returned

crumbVars == <<bcUp, bcPc, bcStart, bcCurr, bcSeen, bcPath>>
zoomVars == <<zPc, zIsId, zAttempts, zView, zSelected>>
indexVars == <<files, canvasIndex, tasks, build, ixLast>>
cardVars == <<variant, render, canvasFile, noteState, lastOp, prevOp>>
sweepVars == <<sweep>>
queryVars == <<fm, answer>>
raceVars == <<ops>>
vars == <<crumbVars, zoomVars, indexVars, cardVars, sweepVars, queryVars, raceVars>>

\* what each component's steps leave alone
notCrumbVars == <<zoomVars, indexVars, cardVars, sweepVars, queryVars, raceVars>>
notZoomVars  == <<crumbVars, indexVars, cardVars, sweepVars, queryVars, raceVars>>
notIndexVars == <<crumbVars, zoomVars, cardVars, sweepVars, queryVars, raceVars>>
notCardVars  == <<crumbVars, zoomVars, indexVars, sweepVars, queryVars, raceVars>>
\* what a step of the sweep leaves alone besides the index variables
besideSweep  == <<crumbVars, zoomVars, cardVars, queryVars, raceVars>>
notQueryVars == <<crumbVars, zoomVars, indexVars, cardVars, sweepVars, raceVars>>

NULL == <<"null">>

----------------------------------------------------------------------------
(* JavaScript string primitives                                            *)

\* s.substring(from - 1): the characters of s from position `from` (1-based) on
Drop(s, from) == SubSeq(s, from, Len(s))

\* s.indexOf(pat) as a 1-based position, 0 when pat does not occur
IndexOf(s, pat) ==
    LET hits == { i \in 1..(Len(s) - Len(pat) + 1) : SubSeq(s, i, i + Len(pat) - 1) = pat }
    IN  IF hits = {} THEN 0 ELSE CHOOSE i \in hits : \A j \in hits : i <= j

\* s.includes(pat)
Includes(s, pat) ==
    \E i \in 1..(Len(s) - Len(pat) + 1) : SubSeq(s, i, i + Len(pat) - 1) = pat

\* s.split(sep)[0] for a one-character separator
SplitFirst(s, sep) ==
    LET p == IndexOf(s, <<sep>>)
    IN  IF p = 0 THEN s ELSE SubSeq(s, 1, p - 1)

\* s.split('/').pop()
SplitLast(s, sep) ==
    LET hits == { i \in 1..Len(s) : s[i] = sep }
    IN  IF hits = {} THEN s
        ELSE Drop(s, (CHOOSE i \in hits : \A j \in hits : j <= i) + 1)

\* s.replace(/\.md$/, '')
StripMd(s) ==
    IF Len(s) > 0 /\ s[Len(s)] = ".md" THEN SubSeq(s, 1, Len(s) - 1) ELSE s

\* The first match of /\[\[(.*?)\]\]/ in s at or after position `from`:
\* <<p, q>> with s[p..p+1] = "[[" and q the position of the first "]]" at or
\* after p + 2 with no newline in between ('.' does not match a newline);
\* <<0, 0>> when there is none.
WikiMatch(s, from) ==
    LET closes(p) == { q \in (p + 2)..(Len(s) - 1) :
                         /\ s[q] = "]" /\ s[q + 1] = "]"
                         /\ \A k \in (p + 2)..(q - 1) : s[k] # "NL" }
        starts == { p \in from..(Len(s) - 3) :
                      s[p] = "[" /\ s[p + 1] = "[" /\ closes(p) # {} }
    IN  IF starts = {} THEN <<0, 0>>
        ELSE LET p == CHOOSE x \in starts : \A y \in starts : x <= y
                 q == CHOOSE x \in closes(p) : \A y \in closes(p) : x <= y
             IN  <<p, q>>

\* text.matchAll(/\[\[(.*?)\]\]/g): the captures match[1], in order
RECURSIVE WikiCaptures(_, _)
WikiCaptures(text, from) ==
    LET m == WikiMatch(text, from)
    IN  IF m[1] = 0 THEN <<>>
        ELSE <<SubSeq(text, m[1] + 2, m[2] - 1)>> \o WikiCaptures(text, m[2] + 2)

\* the captures are pushed whole, alias included
RECURSIVE LinkTargets_Whole(_)
LinkTargets_Whole(captures) ==
    IF captures = <<>> THEN <<>>
    ELSE (IF Head(captures) # <<>> THEN <<Head(captures)>> ELSE <<>>)
           \o LinkTargets_Whole(Tail(captures))

\* the loop of extractWikiLinks over the captures
RECURSIVE LinkTargets(_)
LinkTargets(captures) ==
    IF captures = <<>> THEN <<>>
    ELSE LET linkTarget == SplitFirst(Head(captures), "|")
         IN  (IF Head(captures) # <<>> /\ linkTarget # <<>> THEN <<linkTarget>> ELSE <<>>)
               \o LinkTargets(Tail(captures))

extractWikiLinks(text) == LinkTargets(WikiCaptures(text, 1))

----------------------------------------------------------------------------
(* Frontmatter values: a JSON value is tagged with its JavaScript type.    *)

JStr(s)  == [k |-> "str", v |-> s]
JList(l) == [k |-> "list", v |-> l]
JNum(n)  == [k |-> "num", v |-> <<n>>]
JAbsent  == [k |-> "undefined", v |-> <<>>]

\* !field
Falsy(field) ==
    \/ field.k = "undefined"
    \/ field.k = "null"
    \/ field.k = "str" /\ field.v = <<>>
    \/ field.k = "num" /\ field.v = <<0>>

\* the capture is returned whole, alias included
ParseLinkItem_Alias(item) ==
    IF item.k # "str" THEN <<>>
    ELSE LET m == WikiMatch(item.v, 1)
         IN  IF m[1] # 0 /\ m[2] > m[1] + 2
             THEN SubSeq(item.v, m[1] + 2, m[2] - 1)
             ELSE item.v

\* one item of parseLinks' map(): <<>> stands for null / '' (both are
\* removed by filter(Boolean))
ParseLinkItem(item) ==
    IF item.k # "str" THEN <<>>
    ELSE LET m == WikiMatch(item.v, 1)
         IN  IF m[1] # 0 /\ m[2] > m[1] + 2
             THEN SplitFirst(SubSeq(item.v, m[1] + 2, m[2] - 1), "|")
             ELSE item.v

RECURSIVE FilterNonEmpty(_)
FilterNonEmpty(l) ==
    IF l = <<>> THEN <<>>
    ELSE (IF Head(l) = <<>> THEN <<>> ELSE <<Head(l)>>) \o FilterNonEmpty(Tail(l))

parseLinks(field) ==
    IF Falsy(field) THEN <<>>
    ELSE LET list == IF field.k = "list" THEN field.v ELSE <<field>>
         IN  FilterNonEmpty([i \in 1..Len(list) |-> ParseLinkItem(list[i])])

----------------------------------------------------------------------------
(* The vault's notes and the host's link resolution                        *)

\* vault.getMarkdownFiles(), in the host's order
MdFiles == << <<"f", "/", "A", ".md">>, <<"g", "/", "A", ".md">>,
              <<"B", ".md">>, <<"C", ".md">>, <<"note", ".md">> >>

MdSet == { MdFiles[i] : i \in 1..Len(MdFiles) }

\* TFile.basename
Basename(path) == LET name == SplitLast(path, "/")
                  IN  SubSeq(name, 1, Len(name) - 1)

\* TFile.parent: the path up to and including the last '/'
Folder(path) == SubSeq(path, 1, Len(path) - Len(SplitLast(path, "/")))

\* app.metadataCache.getFirstLinkpathDest(linkpath, sourcePath): the note the
\* link names by path or by name; among several notes of that name the one
\* in the source's folder wins, else the first in the vault's order.
getFirstLinkpathDest(linkpath, sourcePath) ==
    LET bare  == StripMd(linkpath)
        named == { i \in 1..Len(MdFiles) :
                     \/ StripMd(MdFiles[i]) = bare
                     \/ (~Includes(bare, <<"/">>) /\ Basename(MdFiles[i]) = bare) }
        exact == { i \in named : StripMd(MdFiles[i]) = bare }
        near  == { i \in named : Folder(MdFiles[i]) = Folder(sourcePath) }
        pick(S) == MdFiles[CHOOSE i \in S : \A j \in S : i <= j]
    IN  IF named = {} THEN NULL
        ELSE IF exact # {} THEN pick(exact)
        ELSE IF near # {} THEN pick(near)
        ELSE pick(named)

resolveFile(linkText) ==
    IF linkText = <<>> THEN NULL ELSE getFirstLinkpathDest(linkText, <<>>)

----------------------------------------------------------------------------
(* Navigation Path Resolver                                                *)

\* The notes the breadcrumb walk runs over, and the values of `up`
CrumbNotes == { <<"f", "/", "A", ".md">>, <<"B", ".md">>, <<"C", ".md">> }

UpValues == { JAbsent,
              JStr(<<"[", "[", "A", "]", "]">>),
              JStr(<<"[", "[", "B", "|", "x", "]", "]">>),
              JStr(<<"C">>),
              JList(<< JNum(7), JStr(<<"[", "[", "B", "]", "]">>), JStr(<<"C">>) >>),
              JStr(<<"[", "[", "Z", "]", "]">>) }

getParentFile(file) ==
    LET upLinks == parseLinks(bcUp[file])
    IN  IF upLinks # <<>> THEN resolveFile(upLinks[1]) ELSE NULL

\* renderView calls getBreadcrumbPath(file) for an open note
BreadcrumbStart(file) ==
    /\ bcPc = "idle"
    /\ bcPc' = "loop"
    /\ bcStart' = file
    /\ bcCurr' = file
    /\ bcSeen' = {}
    /\ bcPath' = <<>>
    /\ UNCHANGED <<bcUp, notCrumbVars>>

\* one evaluation of `while (curr)` and of the loop's body
BreadcrumbLoopBody_NoSeen ==
    IF bcCurr = NULL
    THEN /\ bcPc' = "done"
         /\ UNCHANGED <<bcUp, bcStart, bcCurr, bcSeen, bcPath>>
    ELSE /\ bcSeen' = bcSeen \cup {bcCurr}
         /\ bcPath' = <<bcCurr>> \o bcPath
         /\ bcCurr' = getParentFile(bcCurr)
         /\ UNCHANGED <<bcUp, bcPc, bcStart>>

BreadcrumbLoopBody ==
    IF bcCurr = NULL \/ bcCurr \in bcSeen
    THEN /\ bcPc' = "done"
         /\ UNCHANGED <<bcUp, bcStart, bcCurr, bcSeen, bcPath>>
    ELSE /\ bcSeen' = bcSeen \cup {bcCurr}
         /\ bcPath' = <<bcCurr>> \o bcPath
         /\ bcCurr' = getParentFile(bcCurr)
         /\ UNCHANGED <<bcUp, bcPc, bcStart>>

BreadcrumbStep ==
    /\ bcPc = "loop"
    /\ BreadcrumbLoopBody
    /\ UNCHANGED notCrumbVars

\* the path has been returned; the next render starts over
BreadcrumbReturn ==
    /\ bcPc = "done"
    /\ bcPc' = "idle"
    /\ bcPath' = <<>>
    /\ bcSeen' = {}
    /\ bcCurr' = NULL
    /\ bcStart' = NULL
    /\ UNCHANGED <<bcUp, notCrumbVars>>

----------------------------------------------------------------------------
(* CanvasReferencesModal.tryZoomToNode: the polling loop                   *)

maxAttempts == 30

\* the number of interval ticks the model follows
MaxTicks == 32

\* What view.canvas exposes when a tick reads it:
\*   "nocanvas"  view.canvas is undefined
\*   "nonodes"   the canvas object exists, canvas.nodes does not
\*   "loading"   canvas.nodes exists and holds no node that matches the target
\*   "ready"     canvas.nodes holds a node that matches the target
ViewStates == {"nocanvas", "nonodes", "loading", "ready"}

\* tryZoomToNode(view, target, isId): attempts = 0, setInterval(..., 100)
tryZoomToNode(isId) ==
    /\ zPc = "idle"
    /\ zPc' = "polling"
    /\ zIsId' = isId
    /\ zAttempts' = 0
    /\ zSelected' = FALSE
    /\ UNCHANGED <<zView, notZoomVars>>

\* the opened view changes on its own between two ticks
ViewChange(v) ==
    /\ zPc = "polling"
    /\ v # zView
    /\ zView' = v
    /\ UNCHANGED <<zPc, zIsId, zAttempts, zSelected, notZoomVars>>

\* one run of the interval's callback
PollTick ==
    /\ zPc = "polling"
    /\ zAttempts < MaxTicks
    /\ zAttempts' = zAttempts + 1
    /\ IF zView = "nocanvas"
       THEN \* if (!canvas) return;
            UNCHANGED <<zPc, zSelected>>
       ELSE IF ~zIsId /\ zView = "nonodes"
       THEN \* for (... of canvas.nodes) throws: the callback ends there
            UNCHANGED <<zPc, zSelected>>
       ELSE IF zView = "ready"
       THEN zPc' = "cleared" /\ zSelected' = TRUE
       ELSE IF zAttempts' >= maxAttempts
       THEN zPc' = "cleared" /\ UNCHANGED zSelected
       ELSE UNCHANGED <<zPc, zSelected>>
    /\ UNCHANGED <<zIsId, zView, notZoomVars>>

\* the modal is opened again later
ZoomReset ==
    /\ zPc = "cleared"
    /\ zPc' = "idle"
    /\ zAttempts' = 0
    /\ zSelected' = FALSE
    /\ zIsId' = FALSE
    /\ UNCHANGED <<zView, notZoomVars>>

----------------------------------------------------------------------------
(* Canvas Document Model                                                   *)

\* A JSON number is an exact rational n/d with d > 0, in lowest terms.
Abs(a) == IF a < 0 THEN -a ELSE a

RECURSIVE Gcd(_, _)
Gcd(a, b) == IF b = 0 THEN a ELSE Gcd(b, a % b)

Rat(n, d) == LET g == Gcd(Abs(n), d) IN [n |-> n \div g, d |-> d \div g]
R(i) == [n |-> i, d |-> 1]
RAdd(a, b) == Rat(a.n * b.d + b.n * a.d, a.d * b.d)
RSub(a, b) == Rat(a.n * b.d - b.n * a.d, a.d * b.d)
RDiv(a, k) == Rat(a.n, a.d * k)
RLess(a, b) == a.n * b.d < b.n * a.d
RLeq(a, b) == a.n * b.d <= b.n * a.d

\* node[field] is present (a missing field reads as undefined)
Has(node, field) == field \in DOMAIN node

TextNode(id, text, x, y, w, h) ==
    [id |-> id, type |-> "text", text |-> text,
     x |-> R(x), y |-> R(y), width |-> R(w), height |-> R(h)]

FileNode(id, file, x, y, w, h) ==
    [id |-> id, type |-> "file", file |-> file,
     x |-> R(x), y |-> R(y), width |-> R(w), height |-> R(h)]

GroupNode(id, label, x, y, w, h) ==
    [id |-> id, type |-> "group", label |-> label,
     x |-> R(x), y |-> R(y), width |-> R(w), height |-> R(h)]

\* A canvas file's content: text that JSON.parse accepts, [ok, doc, tab], where
\* doc is the parsed object and tab says that the text is exactly
\* JSON.stringify(doc, null, "\t"); or text that JSON.parse rejects.
Content(doc, tab) == [ok |-> TRUE, doc |-> doc, tab |-> tab]
BadJson == [ok |-> FALSE, err |-> "parse"]
\* vault.read rejected
ReadFailed == [ok |-> FALSE, err |-> "read"]

\* canvasData.nodes, or the empty list where the code guards a missing field
NodesOf(doc) == IF Has(doc, "nodes") THEN doc.nodes ELSE <<>>

\* the JSON text `null`: JSON.parse returns null, and reading `data.nodes`
\* raises a TypeError inside the try of indexSingleCanvas
NullJson == [ok |-> FALSE, err |-> "type"]

LB == <<"[", "[">>
RB == <<"]", "]">>

----------------------------------------------------------------------------
(* Reverse Reference Index                                                 *)

BATCH_SIZE == 5

\* the indexSingleCanvas calls that may be suspended at one time
MaxTasks == 2

\* the vault's TFile objects, in the vault's order
FileOrder == <<"F1", "F2", "F3", "F4", "F5", "F6">>

PathFC  == <<"f", "/", "c", ".canvas">>
PathGC  == <<"g", "/", "c", ".canvas">>
PathGMd == <<"g", "/", "c", ".md">>
CanvasPaths == {PathFC, PathGC, PathGMd}

\* TFile.extension
Extension(path) == path[Len(path)]

\* canvas contents the index is run on: a file node, a group, and a text node
\* with an aliased link, a link that names no note, a link broken by a
\* newline, an empty link and a link with an empty target
DocRefs ==
    [nodes |-> << GroupNode("g1", <<"B">>, 0, 0, 10, 10),
                  FileNode("n1", <<"B", ".md">>, 0, 0, 10, 10),
                  TextNode("n2",
                    <<"#", " ">> \o LB \o <<"A", "|", "x">> \o RB \o <<"NL">>
                      \o LB \o <<"Z">> \o RB \o <<" ">> \o LB \o <<"C", "NL">> \o RB
                      \o LB \o RB \o LB \o <<"|", "y">> \o RB,
                    20, 0, 10, 10) >>,
     edges |-> <<>>]

DocNoNodes == [edges |-> <<>>]

IndexContents == { BadJson, Content(DocRefs, TRUE), Content(DocNoNodes, FALSE) }

\* what one node adds to referencedPaths
NodeRefs_NoFile(node, canvasPath) ==
    IF node.type = "text" /\ Has(node, "text")
    THEN LET links == extractWikiLinks(node.text)
         IN  { getFirstLinkpathDest(links[i], canvasPath) : i \in 1..Len(links) } \ {NULL}
    ELSE {}

NodeRefs_NoBase(node, canvasPath) ==
    IF node.type = "file" /\ Has(node, "file")
    THEN {node.file}
    ELSE IF node.type = "text" /\ Has(node, "text")
    THEN LET links == extractWikiLinks(node.text)
         IN  { getFirstLinkpathDest(links[i], <<>>) : i \in 1..Len(links) } \ {NULL}
    ELSE {}

NodeRefs(node, canvasPath) ==
    IF node.type = "file" /\ Has(node, "file")
    THEN {node.file}
    ELSE IF node.type = "text" /\ Has(node, "text")
    THEN LET links == extractWikiLinks(node.text)
         IN  { getFirstLinkpathDest(links[i], canvasPath) : i \in 1..Len(links) } \ {NULL}
    ELSE {}

\* referencedPaths as indexSingleCanvas builds it from the parsed data
ReferencedPaths(doc, canvasPath) ==
    UNION { NodeRefs(NodesOf(doc)[i], canvasPath) : i \in 1..Len(NodesOf(doc)) }

\* canvasIndex.set(key, value) and canvasIndex.delete(key)
IndexSet(index, key, value) ==
    [k \in (DOMAIN index) \cup {key} |-> IF k = key THEN value ELSE index[k]]

IndexDelete(index, key) ==
    [k \in (DOMAIN index) \ {key} |-> index[k]]

NoResume == [f |-> "none"]

\* indexSingleCanvas(file) up to `await this.app.vault.read(file)`: the read
\* is issued and will deliver the content the file has now.  A call made by
\* the rename handler for a file that was a canvas remembers the handler's
\* oldPath and the new path.
NewTask(f, by) ==
    [f |-> f, by |-> by, old |-> <<>>, new |-> <<>>,
     buf |-> IF files[f].exists THEN files[f].content ELSE ReadFailed]

\* indexSingleCanvas(file) from the point where the read settles.  A read
\* whose file was deleted under it may also reject.
IndexResume(t, rejected) ==
    /\ t \in tasks
    /\ rejected => ~files[t.f].exists
    /\ LET buf  == IF rejected THEN ReadFailed ELSE t.buf
           path == files[t.f].path
       IN  /\ canvasIndex' =
                IF buf.ok
                THEN IndexSet(canvasIndex, path, ReferencedPaths(buf.doc, path))
                ELSE IndexDelete(canvasIndex, path)
           /\ ixLast' = [f |-> t.f, path |-> path, buf |-> buf,
                         old |-> t.old, new |-> t.new]
    /\ tasks' = tasks \ {t}
    /\ UNCHANGED <<files, build, notIndexVars>>

\* vault 'modify' on a canvas: the content changes, the handler awaits
\* indexSingleCanvas(file)
CanvasModify(f, c) ==
    /\ files[f].exists
    /\ Extension(files[f].path) = ".canvas"
    /\ c # files[f].content
    /\ Cardinality(tasks) < MaxTasks
    /\ files' = [files EXCEPT ![f].content = c]
    /\ tasks' = tasks \cup {[f |-> f, by |-> "event", old |-> <<>>,
                              new |-> <<>>, buf |-> c]}
    /\ ixLast' = NoResume
    /\ UNCHANGED <<canvasIndex, build, notIndexVars>>

\* vault 'delete'
CanvasDelete(f) ==
    /\ files[f].exists
    /\ files' = [files EXCEPT ![f].exists = FALSE]
    /\ canvasIndex' = IF Extension(files[f].path) = ".canvas"
                      THEN IndexDelete(canvasIndex, files[f].path)
                      ELSE canvasIndex
    /\ ixLast' = NoResume
    /\ UNCHANGED <<tasks, build, notIndexVars>>

\* vault 'rename': the TFile carries the new path, the handler gets the old one
CanvasRename(f, newPath) ==
    /\ files[f].exists
    /\ \A g \in DOMAIN files : files[g].exists => files[g].path # newPath
    /\ Cardinality(tasks) < MaxTasks
    /\ files' = [files EXCEPT ![f].path = newPath]
    /\ IF Extension(newPath) = ".canvas"
       THEN /\ canvasIndex' = IndexDelete(canvasIndex, files[f].path)
            /\ tasks' = tasks \cup
                 {[f |-> f, by |-> "event",
                   old |-> IF Extension(files[f].path) = ".canvas"
                           THEN files[f].path ELSE <<>>,
                   new |-> IF Extension(files[f].path) = ".canvas"
                           THEN newPath ELSE <<>>,
                   buf |-> files[f].content]}
       ELSE UNCHANGED <<canvasIndex, tasks>>
    /\ ixLast' = NoResume
    /\ UNCHANGED <<build, notIndexVars>>

\* the files of the vault with extension 'canvas', in the vault's order
RECURSIVE SelectFiles(_)
SelectFiles(order) ==
    IF order = <<>> THEN <<>>
    ELSE (IF /\ Head(order) \in DOMAIN files
             /\ files[Head(order)].exists
             /\ Extension(files[Head(order)].path) = ".canvas"
          THEN <<Head(order)>> ELSE <<>>) \o SelectFiles(Tail(order))

CanvasFileList == SelectFiles(FileOrder)

BatchTasks_Short(list, i) ==
    { NewTask(list[j], "build") : j \in { k \in 1..Len(list) : i < k /\ k < i + BATCH_SIZE } }

\* a slice of BATCH_SIZE + 1 files
BatchTasks_Wide(list, i) ==
    { NewTask(list[j], "build") : j \in { k \in 1..Len(list) : i < k /\ k <= i + BATCH_SIZE + 1 } }

\* batch.map(file => this.indexSingleCanvas(file)) for the batch at i
BatchTasks(list, i) ==
    { NewTask(list[j], "build") : j \in { k \in 1..Len(list) : i < k /\ k <= i + BATCH_SIZE } }

\* buildCanvasIndex() up to its first await
BuildStart ==
    /\ build.pc = "idle"
    /\ LET list == CanvasFileList
       IN  IF list = <<>>
           THEN /\ build' = [pc |-> "done", list |-> list, i |-> 0]
                /\ UNCHANGED tasks
           ELSE /\ build' = [pc |-> "batch", list |-> list, i |-> 0]
                /\ tasks' = tasks \cup BatchTasks(list, 0)
    /\ ixLast' = NoResume
    /\ UNCHANGED <<files, canvasIndex, notIndexVars>>

\* buildCanvasIndex() resumes: Promise.all of the batch has settled (then it
\* waits YIELD_INTERVAL if files remain, else it is done), or the
\* YIELD_INTERVAL timer has fired (then the next batch starts)
BuildResume ==
    /\ build.pc \in {"batch", "yield"}
    /\ IF build.pc = "batch"
       THEN /\ \A t \in tasks : t.by # "build"
            /\ build' = [build EXCEPT !.pc = IF build.i + BATCH_SIZE < Len(build.list)
                                             THEN "yield" ELSE "done"]
            /\ UNCHANGED tasks
       ELSE /\ build' = [build EXCEPT !.pc = "batch", !.i = build.i + BATCH_SIZE]
            /\ tasks' = tasks \cup BatchTasks(build.list, build.i + BATCH_SIZE)
    /\ ixLast' = NoResume
    /\ UNCHANGED <<files, canvasIndex, notIndexVars>>

----------------------------------------------------------------------------
(* Card text: cleanName and extractNodeText                                *)

Digits == {"0", "1", "2", "3", "4", "5", "6", "7", "8", "9"}

\* the character class [\d.\-_]
PrefixChars == Digits \cup {".", "-", "_"}

\* the character class \s
Spaces == {" ", "NL"}

\* the number of consecutive characters of `set` in s from position `from`
RunLen(s, from, set) ==
    LET stops == { i \in from..Len(s) : s[i] \notin set }
    IN  IF stops = {} THEN IF from > Len(s) THEN 0 ELSE Len(s) - from + 1
        ELSE (CHOOSE i \in stops : \A j \in stops : i <= j) - from

\* s.trimStart()
TrimStart(s) == Drop(s, RunLen(s, 1, Spaces) + 1)

\* s.trim()
Trim(s) ==
    LET t == TrimStart(s)
        keep == { i \in 1..Len(t) : t[i] \notin Spaces }
    IN  IF keep = {} THEN <<>>
        ELSE SubSeq(t, 1, CHOOSE i \in keep : \A j \in keep : j <= i)

\* text.replace(/^[\d.\-_]+\s+/, '')
cleanName(text) ==
    LET p == RunLen(text, 1, PrefixChars)
        q == RunLen(text, p + 1, Spaces)
    IN  IF p > 0 /\ q > 0 THEN Drop(text, p + q + 1) ELSE text

\* ^ under the m flag: position p of s starts a line
LineStart(s, p) == p = 1 \/ (p - 1 <= Len(s) /\ s[p - 1] = "NL")

\* $ under the m flag: position p of s ends a line
LineEnd(s, p) == p = Len(s) + 1 \/ (p <= Len(s) /\ s[p] = "NL")

\* content.match(/^\s*description\s*[:<fullwidth colon>]/im), where "FWCOLON"
\* is the full-width colon: <<index, length>> of the
\* leftmost match (1-based index), <<0, 0>> when there is none
DescriptionLabel(content) ==
    LET EndOf(p) ==
            LET a == p + RunLen(content, p, Spaces)
                b == a + 1 + RunLen(content, a + 1, Spaces)
            IN  IF /\ a <= Len(content)
                   /\ content[a] \in {"description", "Description"}
                   /\ b <= Len(content)
                   /\ content[b] \in {":", "FWCOLON"}
                THEN b ELSE 0
        hits == { p \in 1..Len(content) : LineStart(content, p) /\ EndOf(p) > 0 }
    IN  IF hits = {} THEN <<0, 0>>
        ELSE LET p == CHOOSE i \in hits : \A j \in hits : i <= j
             IN  <<p, EndOf(p) - p + 1>>

\* t.match(/(\n---|^\s*$|\n#)/m): the 1-based index of the leftmost match, 0
\* when there is none.  ^\s*$ matches at a line start from which white space
\* runs up to some line end.
SectionEnd(t) ==
    LET Blank(p) ==
            /\ LineStart(t, p)
            /\ LineEnd(t, p + RunLen(t, p, {" "}))
        Mark(p, c) == p + 1 <= Len(t) /\ t[p] = "NL" /\ t[p + 1] = c
        hits == { p \in 1..(Len(t) + 1) : Mark(p, "---") \/ Blank(p) \/ Mark(p, "#") }
    IN  IF hits = {} THEN 0 ELSE CHOOSE i \in hits : \A j \in hits : i <= j

\* the excerpt of t up to its section end, trimmed
Excerpt(t) ==
    LET e == SectionEnd(t)
    IN  IF e > 0 THEN Trim(SubSeq(t, 1, e - 1)) ELSE Trim(t)

\* `if (!descContent && textAfter.startsWith('\n'))`: the excerpt of the
\* lines that follow, else descContent
DescOrNext(textAfter, descContent) ==
    IF descContent = <<>> /\ Len(textAfter) > 0 /\ textAfter[1] = "NL"
    THEN Excerpt(TrimStart(textAfter))
    ELSE descContent

\* the description after the label matched as <<index, length>>
DescAfter(content, m) ==
    IF m[1] = 0 THEN <<>>
    ELSE DescOrNext(Drop(content, m[1] + m[2]),
                    Excerpt(Drop(content, m[1] + m[2])))

\* extractNodeText's regex fallback on the note's content
FallbackDescription(content) == DescAfter(content, DescriptionLabel(content))

\* descContent of extractNodeText for a note in state ns
DescContent(ns) ==
    IF ns.description.k = "str" THEN ns.description.v
    ELSE FallbackDescription(ns.content)

\* part_001: `# [[${file.basename}|${cleanedTitle}]]\n\n${descContent}`
extractNodeText(path, ns) ==
    <<"#", " ">> \o LB \o Basename(path) \o <<"|">> \o cleanName(Basename(path))
        \o RB \o <<"NL", "NL">> \o DescContent(ns)

\* main.ts: `# [[${file.basename}]]\n\n${descContent}`
extractNodeText_main(path, ns) ==
    <<"#", " ">> \o LB \o Basename(path) \o RB \o <<"NL", "NL">> \o DescContent(ns)

----------------------------------------------------------------------------
(* Card measurement: measureTextPrecisely over the host's text layout      *)

CARD_MIN_WIDTH == 260
CARD_MAX_WIDTH == 1200
CARD_MAX_WIDTH_main == 800

\* the probes of the bisection
BisectSteps == 10

Max(a, b) == IF a > b THEN a ELSE b
Min(a, b) == IF a < b THEN a ELSE b

\* Math.ceil(a / b) for a >= 0, b > 0
CeilDiv(a, b) == (a + b - 1) \div b

\* The host's layout of rendered markdown: a heading line and body lines that
\* wrap at the container's width.
RenderProfiles ==
    { [head |-> 40, line |-> 24, ink |-> 100,   title |-> 100],
      [head |-> 40, line |-> 24, ink |-> 20000, title |-> 700] }

\* Math.ceil(nodeContent.getBoundingClientRect().height) at width w
RenderHeight(text, w) ==
    render.head + render.line * CeilDiv(render.ink * Len(text), w)

\* Math.ceil(h1.getBoundingClientRect().width), unwrapped
H1Width(text) == render.title

\* the rendered text has a list item
HasListItem(text) == Includes(text, <<"NL", "-", " ">>)

\* li.offsetHeight / lineHeight of the longest list item at width w
LiLines(text, w) == IF HasListItem(text) THEN CeilDiv(render.ink, w) ELSE 0

\* part_001: the loop `for (let i = 0; i < 10; i++)`; bestDiff < 0 is Infinity
RECURSIVE Bisect(_, _, _, _, _, _)
Bisect(text, i, low, high, bestWidth, bestDiff) ==
    IF i >= BisectSteps THEN bestWidth
    ELSE LET mid == (low + high) \div 2
             h == RenderHeight(text, mid)
             diff == Abs(mid - h)
             better == bestDiff < 0 \/ diff < bestDiff
         IN  Bisect(text, i + 1,
                    IF mid < h THEN mid + 1 ELSE low,
                    IF mid < h THEN high ELSE mid - 1,
                    IF better THEN mid ELSE bestWidth,
                    IF better THEN diff ELSE bestDiff)

\* part_001: the widths the loop of measureTextPrecisely probes, in order
RECURSIVE BisectProbes(_, _, _, _)
BisectProbes(text, i, low, high) ==
    IF i >= BisectSteps THEN <<>>
    ELSE IF ((low + high) \div 2) < RenderHeight(text, (low + high) \div 2)
    THEN <<(low + high) \div 2>>
           \o BisectProbes(text, i + 1, ((low + high) \div 2) + 1, high)
    ELSE <<(low + high) \div 2>>
           \o BisectProbes(text, i + 1, low, ((low + high) \div 2) - 1)

\* part_001: minW and maxW of measureTextPrecisely
MinW(text) == Max(CARD_MIN_WIDTH, H1Width(text) + 80)
MaxW(text) == Max(CARD_MAX_WIDTH, MinW(text) * 2)

\* part_001: a square whose side fits the text at the width where the
\* rendered height is closest to the width
measureTextPrecisely(text) ==
    LET titleWidth == H1Width(text) + 80
        minW == Max(CARD_MIN_WIDTH, titleWidth)
        maxW == Max(CARD_MAX_WIDTH, minW * 2)
        bestWidth == Bisect(text, 0, minW, maxW, minW, -1)
        finalWidth == bestWidth + 40
        finalHeight == RenderHeight(text, bestWidth) + 50
        squareSide == Max(finalWidth, finalHeight)
    IN  [width |-> squareSide, height |-> squareSide]

\* main.ts: the title on one line, widened for long list items
measureTextPrecisely_main(text) ==
    LET titleWidth == H1Width(text) + 80
        startWidth == Max(titleWidth, CARD_MIN_WIDTH)
        maxLines == LiLines(text, startWidth)
        \* Math.ceil(currentWidth * (maxLines / 2) * 1.05)
        idealWidth == CeilDiv(startWidth * maxLines * 105, 200)
        currentWidth == IF maxLines >= 3
                        THEN Max(startWidth, Min(idealWidth, CARD_MAX_WIDTH_main))
                        ELSE startWidth
    IN  [width |-> currentWidth, height |-> RenderHeight(text, currentWidth)]

----------------------------------------------------------------------------
(* JavaScript values of node fields                                        *)

Undefined == [k |-> "undefined"]
JNull == [k |-> "null"]
NaN == [n |-> 0, d |-> 0]

IsNaN(a) == a.d = 0

\* node[field]
Get(node, field) == IF Has(node, field) THEN node[field] ELSE Undefined

\* node[field] = v, as JSON.stringify then sees the node: a field whose
\* value is undefined is not written
Put(node, field, v) ==
    IF v = Undefined THEN [k \in DOMAIN node \ {field} |-> node[k]]
    ELSE [k \in DOMAIN node \cup {field} |-> IF k = field THEN v ELSE node[k]]

\* the number a field's value is in arithmetic: undefined is NaN, null is 0
ToNum(v) == IF v = Undefined THEN NaN ELSE IF v = JNull THEN R(0) ELSE v

\* JSON.stringify of a number: NaN is written as null
ToJson(a) == IF IsNaN(a) THEN JNull ELSE a

NAdd(a, b) == IF IsNaN(a) \/ IsNaN(b) THEN NaN ELSE RAdd(a, b)
NDiv(a, k) == IF IsNaN(a) THEN NaN ELSE RDiv(a, k)
NLess(a, b) == ~IsNaN(a) /\ ~IsNaN(b) /\ RLess(a, b)
NLeq(a, b) == ~IsNaN(a) /\ ~IsNaN(b) /\ RLeq(a, b)

\* node.type === t
TypeIs(node, t) == Has(node, "type") /\ node.type = t

\* the four geometry fields
Geometry == {"x", "y", "width", "height"}

----------------------------------------------------------------------------
(* Card Reconciliation Engine: addToCanvas, syncNodeInCanvas               *)

\* the id an operation returns when it returns null
NullId == "null"

\* what an operation holds when JSON.parse threw or nodes is missing
NoDoc == [parsed |-> FALSE]

\* an operation's outcome: whether vault.modify was called, the canvasData it
\* held at its end (what it wrote, when it wrote), and its return value
Outcome(wrote, mem, ret) ==
    [wrote |-> wrote, mem |-> mem, ret |-> ret, notice |-> <<>>]

\* the texts of the notices (new Notice(...)), in translation
NoticeCannotRead   == "cannot read the canvas data"
NoticeAdjusted     == "groups adjusted to their cards"
NoticeNothing      == "no group needs adjusting"
NoticeAdjustFailed == "adjusting groups failed"

\* new Notice(msg)
Notify(o, msg) == [o EXCEPT !.notice = Append(@, msg)]

\* `await this.app.vault.modify(canvasFile, ...)` of addToCanvas and
\* syncNodeInCanvas, when the operation reached it (o.wrote): the call is
\* made once, outside any try, so a write the storage rejects rejects the
\* operation and no value is returned
Modify(o, writeFails) ==
    [wrote    |-> o.wrote /\ ~writeFails,
     mem      |-> o.mem,
     ret      |-> IF o.wrote /\ writeFails THEN NullId ELSE o.ret,
     notice   |-> o.notice,
     attempts |-> IF o.wrote THEN 1 ELSE 0,
     rejected |-> o.wrote /\ writeFails]

\* the same call in adjustGroupsInCanvas sits inside the try: the catch logs
\* the error and shows a notice, and the operation completes normally
Modify_Caught(o, writeFails) ==
    [wrote    |-> o.wrote /\ ~writeFails,
     mem      |-> o.mem,
     ret      |-> o.ret,
     notice   |-> IF ~o.wrote THEN o.notice
                  ELSE IF writeFails THEN <<NoticeAdjustFailed>>
                  ELSE <<NoticeAdjusted>>,
     attempts |-> IF o.wrote THEN 1 ELSE 0,
     rejected |-> FALSE]

\* without `if (!canvasData.nodes) canvasData.nodes = []`: only a document
\* that has the field gets the nodes
WithNodes_Present(doc, nodes) ==
    [k \in DOMAIN doc |-> IF k = "nodes" THEN nodes ELSE doc[k]]

\* canvasData with canvasData.nodes = nodes
WithNodes(doc, nodes) ==
    [k \in DOMAIN doc \cup {"nodes"} |-> IF k = "nodes" THEN nodes ELSE doc[k]]

\* `[[${noteFile.basename}`
TargetLink(path) == LB \o Basename(path)

\* the lookup of addToCanvas: node is a card of the note (exact-link variant
\* first: it accepts only the unaliased link)
IsCardFor_Exact(node, path) ==
    \/ TypeIs(node, "file") /\ Has(node, "file") /\ node.file = path
    \/ TypeIs(node, "text") /\ Has(node, "text")
         /\ Includes(node.text, LB \o Basename(path) \o RB)

\* (file-only variant: text cards are not looked at)
IsCardFor_FileOnly(node, path) ==
    TypeIs(node, "file") /\ Has(node, "file") /\ node.file = path

IsCardFor(node, path) ==
    \/ TypeIs(node, "file") /\ Has(node, "file") /\ node.file = path
    \/ TypeIs(node, "text") /\ Has(node, "text")
         /\ Includes(node.text, TargetLink(path))

\* the forEach of addToCanvas: the rightmost edge, from maxX = 0
RECURSIVE MaxRight(_, _, _)
MaxRight(nodes, i, maxX) ==
    IF i > Len(nodes) THEN maxX
    ELSE LET right == NAdd(ToNum(Get(nodes[i], "x")), ToNum(Get(nodes[i], "width")))
         IN  MaxRight(nodes, i + 1, IF NLess(maxX, right) THEN right ELSE maxX)

\* the forEach of addToCanvas: avgY += n.y
RECURSIVE SumY(_, _, _)
SumY(nodes, i, avgY) ==
    IF i > Len(nodes) THEN avgY
    ELSE SumY(nodes, i + 1, NAdd(avgY, ToNum(Get(nodes[i], "y"))))

\* where addToCanvas puts a new card: [x, y]
Placement(nodes) ==
    IF Len(nodes) > 0
    THEN [x |-> NAdd(MaxRight(nodes, 1, R(0)), R(100)),
          y |-> NDiv(SumY(nodes, 1, R(0)), Len(nodes))]
    ELSE [x |-> NAdd(R(-400), R(100)), y |-> R(-200)]

\* newNode of addToCanvas, as it is written
NewCard(nodeId, text, at, size) ==
    [id |-> nodeId, type |-> "text", text |-> text,
     x |-> ToJson(at.x), y |-> ToJson(at.y),
     width |-> R(size.width), height |-> R(size.height)]

\* (wide variant: the group is 40 wider than the node)
GroupAround_Wide(groupId, label, node) ==
    [id |-> groupId, type |-> "group", label |-> label,
     x |-> node.x, y |-> node.y,
     width |-> RAdd(node.width, R(40)), height |-> node.height]

\* newGroup: a group with the geometry of `node`
GroupAround(groupId, label, node) ==
    LET base == [id |-> groupId, type |-> "group", label |-> label]
        withX == Put(base, "x", Get(node, "x"))
        withY == Put(withX, "y", Get(node, "y"))
        withW == Put(withY, "width", Get(node, "width"))
    IN  Put(withW, "height", Get(node, "height"))

\* what addToCanvas pushes (card-first variant first)
NewCardNodes_CardFirst(newGroup, newNode) == <<newNode, newGroup>>

NewCardNodes(newGroup, newNode) == <<newGroup, newNode>>

\* canvasData.nodes.push(newGroup); canvasData.nodes.push(newNode); and the
\* write
PushPair(doc, nodes, path, groupId, newNode) ==
    Outcome(TRUE,
            WithNodes(doc, nodes \o NewCardNodes(GroupAround(groupId, Basename(path),
                                                             newNode),
                                                 newNode)),
            newNode.id)

\* part_001 addToCanvas from the generated text on
PushCard(doc, nodes, path, groupId, nodeId, textContent) ==
    PushPair(doc, nodes, path, groupId,
             NewCard(nodeId, textContent, Placement(nodes),
                     measureTextPrecisely(textContent)))

\* main.ts addToCanvas from the generated text on
PushCard_main(doc, nodes, nodeId, textContent) ==
    Outcome(TRUE,
            WithNodes(doc, nodes \o << NewCard(nodeId, textContent, Placement(nodes),
                                               measureTextPrecisely_main(textContent)) >>),
            nodeId)

\* part_001 addToCanvas(canvasFile, noteFile); groupId and nodeId are the two
\* Math.random() ids
addToCanvas(content, path, ns, groupId, nodeId) ==
    IF ~content.ok THEN Notify(Outcome(FALSE, NoDoc, NullId), NoticeCannotRead)
    ELSE LET nodes == NodesOf(content.doc)
             hits == { i \in 1..Len(nodes) : IsCardFor(nodes[i], path) }
         IN  IF hits # {}
             THEN Outcome(FALSE, WithNodes(content.doc, nodes),
                          nodes[CHOOSE i \in hits : \A j \in hits : i <= j].id)
             ELSE PushCard(content.doc, nodes, path, groupId, nodeId,
                           extractNodeText(path, ns))

\* main.ts addToCanvas(canvasFile, noteFile): the card alone
addToCanvas_main(content, path, ns, nodeId) ==
    IF ~content.ok THEN Notify(Outcome(FALSE, NoDoc, NullId), NoticeCannotRead)
    ELSE LET nodes == NodesOf(content.doc)
             hits == { i \in 1..Len(nodes) : IsCardFor(nodes[i], path) }
         IN  IF hits # {}
             THEN Outcome(FALSE, WithNodes(content.doc, nodes),
                          nodes[CHOOSE i \in hits : \A j \in hits : i <= j].id)
             ELSE PushCard_main(content.doc, nodes, nodeId,
                                extractNodeText_main(path, ns))

\* the text nodes that contain targetLink
TextMatches(nodes, path) ==
    { i \in 1..Len(nodes) : /\ TypeIs(nodes[i], "text") /\ Has(nodes[i], "text")
                            /\ Includes(nodes[i].text, TargetLink(path)) }

\* the file nodes whose file is targetPath
FileMatches(nodes, path) ==
    { i \in 1..Len(nodes) : /\ TypeIs(nodes[i], "file") /\ Has(nodes[i], "file")
                            /\ nodes[i].file = path }

\* node.text = textContent (typed variant first: it keeps the known fields)
SetText_Typed(node, textContent) ==
    [k \in DOMAIN node \cap ({"id", "type", "text"} \cup Geometry) |->
        IF k = "text" THEN textContent ELSE node[k]]

SetText(node, textContent) == [node EXCEPT !.text = textContent]

\* !targetNodeId
IdFalsy(id) == id = NullId \/ id = ""

\* (a test that never finds the group)
hasGroup_Never(nodes, path) == FALSE

\* canvasData.nodes.some(n => n.type === 'group' && n.label === basename)
hasGroup(nodes, path) ==
    \E i \in 1..Len(nodes) : /\ TypeIs(nodes[i], "group") /\ Has(nodes[i], "label")
                             /\ nodes[i].label = Basename(path)

\* the last element of a non-empty set of positions, and the first
Last(set) == CHOOSE i \in set : \A j \in set : j <= i
First(set) == CHOOSE i \in set : \A j \in set : i <= j

\* what both syncNodeInCanvas versions resolve after their loops, over the
\* nodes as read: [id, at] with at = 0 when targetNode is null
ResolveTarget(nodes, textHits, fileHits) ==
    IF textHits # {} /\ ~IdFalsy(nodes[Last(textHits)].id)
    THEN [id |-> nodes[Last(textHits)].id, at |-> Last(textHits)]
    ELSE IF fileHits # {}
    THEN [id |-> nodes[First(fileHits)].id, at |-> First(fileHits)]
    ELSE IF textHits # {}
    THEN [id |-> nodes[Last(textHits)].id, at |-> Last(textHits)]
    ELSE [id |-> NullId, at |-> 0]

SyncTarget(nodes, path) ==
    ResolveTarget(nodes, TextMatches(nodes, path), FileMatches(nodes, path))

\* part_001 syncNodeInCanvas (a variant that always rewrites comes first)
syncNodeInCanvas_Always(content, path, ns, groupId) ==
    IF ~content.ok \/ ~Has(content.doc, "nodes") THEN Outcome(FALSE, NoDoc, NullId)
    ELSE Outcome(TRUE, content.doc, SyncTarget(content.doc.nodes, path).id)

\* (a loop that rewrites the last match only)
SyncTexts_Last(nodes, path, textContent) ==
    [updated |-> \E i \in TextMatches(nodes, path) : nodes[i].text # textContent,
     nodes |-> [i \in 1..Len(nodes) |->
                  IF TextMatches(nodes, path) # {} /\ i = Last(TextMatches(nodes, path))
                  THEN SetText(nodes[i], textContent)
                  ELSE nodes[i]]]

\* the first loop of part_001 syncNodeInCanvas: [updated, nodes]
SyncTexts(nodes, path, textContent) ==
    [updated |-> \E i \in TextMatches(nodes, path) : nodes[i].text # textContent,
     nodes |-> [i \in 1..Len(nodes) |->
                  IF i \in TextMatches(nodes, path) /\ nodes[i].text # textContent
                  THEN SetText(nodes[i], textContent)
                  ELSE nodes[i]]]

\* (appending variant: the new group goes behind the nodes)
RepairGroup_Appended(doc, path, groupId, grouped, target, synced) ==
    IF target.at > 0 /\ ~grouped
    THEN Outcome(TRUE,
                 WithNodes(doc, Append(synced.nodes,
                                       GroupAround(groupId, Basename(path),
                                                   synced.nodes[target.at]))),
                 target.id)
    ELSE Outcome(synced.updated, WithNodes(doc, synced.nodes), target.id)

\* part_001 syncNodeInCanvas from `if (targetNode)` on: grouped is hasGroup,
\* target the resolved [id, at], synced the first loop's [updated, nodes]
RepairGroup(doc, path, groupId, grouped, target, synced) ==
    IF target.at > 0 /\ ~grouped
    THEN Outcome(TRUE,
                 WithNodes(doc, << GroupAround(groupId, Basename(path),
                                               synced.nodes[target.at]) >>
                                  \o synced.nodes),
                 target.id)
    ELSE Outcome(synced.updated, WithNodes(doc, synced.nodes), target.id)

\* part_001 syncNodeInCanvas(canvasFile, noteFile): text only, and the
\* missing group; groupId is the Math.random() id
syncNodeInCanvas(content, path, ns, groupId) ==
    IF ~content.ok \/ ~Has(content.doc, "nodes") THEN Outcome(FALSE, NoDoc, NullId)
    ELSE RepairGroup(content.doc, path, groupId,
                     hasGroup(content.doc.nodes, path),
                     SyncTarget(content.doc.nodes, path),
                     SyncTexts(content.doc.nodes, path, extractNodeText(path, ns)))

\* node.width || 0
OrZero(v) == IF v = Undefined \/ v = JNull THEN R(0) ELSE v

\* Math.abs((node.width || 0) - width) > 2
SizeDiff(v, measured) ==
    LET d == RSub(OrZero(v), R(measured))
    IN  RLess(R(2), [n |-> Abs(d.n), d |-> d.d])

\* isContentDiff || isSizeDiff
IsStale_main(node, textContent, size) ==
    \/ node.text # textContent
    \/ SizeDiff(Get(node, "width"), size.width)
    \/ SizeDiff(Get(node, "height"), size.height)

\* node.text = textContent; node.width = width; node.height = height
SetCard_main(node, textContent, size) ==
    Put(Put(SetText(node, textContent), "width", R(size.width)),
        "height", R(size.height))

\* the loop of main.ts syncNodeInCanvas and what follows it
SyncMeasured(doc, nodes, path, textContent, size) ==
    Outcome(\E i \in TextMatches(nodes, path) :
                IsStale_main(nodes[i], textContent, size),
            WithNodes(doc,
                      [i \in 1..Len(nodes) |->
                         IF /\ i \in TextMatches(nodes, path)
                            /\ IsStale_main(nodes[i], textContent, size)
                         THEN SetCard_main(nodes[i], textContent, size)
                         ELSE nodes[i]]),
            SyncTarget(nodes, path).id)

\* main.ts syncNodeInCanvas from the generated text on
SyncSized(doc, nodes, path, textContent) ==
    SyncMeasured(doc, nodes, path, textContent,
                 measureTextPrecisely_main(textContent))

\* main.ts syncNodeInCanvas(canvasFile, noteFile): text and size
syncNodeInCanvas_main(content, path, ns) ==
    IF ~content.ok \/ ~Has(content.doc, "nodes") THEN Outcome(FALSE, NoDoc, NullId)
    ELSE SyncSized(content.doc, content.doc.nodes, path,
                   extractNodeText_main(path, ns))

----------------------------------------------------------------------------
(* Card Reconciliation Engine: adjustGroupsInCanvas                        *)

\* (strict variant: a centre on the edge is outside)
Inside_Strict(n, group) ==
    LET cx == NAdd(ToNum(Get(n, "x")), NDiv(ToNum(Get(n, "width")), 2))
        cy == NAdd(ToNum(Get(n, "y")), NDiv(ToNum(Get(n, "height")), 2))
        gx == ToNum(Get(group, "x"))
        gy == ToNum(Get(group, "y"))
    IN  /\ NLess(gx, cx) /\ NLess(cx, NAdd(gx, ToNum(Get(group, "width"))))
        /\ NLess(gy, cy) /\ NLess(cy, NAdd(gy, ToNum(Get(group, "height"))))

\* the centre of n lies in group's rectangle
Inside(n, group) ==
    LET cx == NAdd(ToNum(Get(n, "x")), NDiv(ToNum(Get(n, "width")), 2))
        cy == NAdd(ToNum(Get(n, "y")), NDiv(ToNum(Get(n, "height")), 2))
        gx == ToNum(Get(group, "x"))
        gy == ToNum(Get(group, "y"))
    IN  /\ NLeq(gx, cx) /\ NLeq(cx, NAdd(gx, ToNum(Get(group, "width"))))
        /\ NLeq(gy, cy) /\ NLeq(cy, NAdd(gy, ToNum(Get(group, "height"))))

\* nonGroups.filter(...): the positions of the non-group nodes inside group
nodesInside(nodes, group) ==
    { i \in 1..Len(nodes) : ~TypeIs(nodes[i], "group") /\ Inside(nodes[i], group) }

\* (a predicate that takes any file or text node)
IsGroupTarget_Any(n, label) == TypeIs(n, "file") \/ TypeIs(n, "text")

\* the predicate of canvasData.nodes.find(...)
IsGroupTarget(n, label) ==
    \/ TypeIs(n, "file") /\ Has(n, "file") /\ StripMd(SplitLast(n.file, "/")) = label
    \/ TypeIs(n, "text") /\ Has(n, "text")
         /\ \/ Includes(n.text, LB \o label \o RB)
            \/ Includes(n.text, LB \o label \o <<"|">>)
            \/ Includes(n.text, <<"#", " ">> \o LB \o label \o RB)

\* (variant without the `nodesInside.length > 1` skip)
GroupTarget_NoSkip(nodes, group) ==
    IF ~Has(group, "label") \/ group.label = <<>> THEN 0
    ELSE LET hits == { i \in 1..Len(nodes) : IsGroupTarget(nodes[i], group.label) }
         IN  IF hits = {} THEN 0 ELSE First(hits)

\* the position of targetNode for a group, 0 when the group is skipped or
\* has no target
GroupTarget(nodes, group) ==
    IF Cardinality(nodesInside(nodes, group)) > 1 THEN 0
    ELSE IF ~Has(group, "label") \/ group.label = <<>> THEN 0
    ELSE LET hits == { i \in 1..Len(nodes) : IsGroupTarget(nodes[i], group.label) }
         IN  IF hits = {} THEN 0 ELSE First(hits)

\* (a comparison that always finds a difference)
GeometryDiffers_Always(group, targetNode) == TRUE

\* group.x !== newX || group.y !== newY || ...
GeometryDiffers(group, targetNode) ==
    \E f \in Geometry : Get(group, f) # Get(targetNode, f)

\* a variant with the 20px padding of a frame around its card
SnapGroup_Padded(group, targetNode) ==
    [k \in DOMAIN group |->
        IF k \in {"x", "y"} /\ Has(targetNode, k) THEN RSub(targetNode[k], R(20))
        ELSE IF k \in {"width", "height"} /\ Has(targetNode, k)
             THEN RAdd(targetNode[k], R(40))
        ELSE group[k]]

\* group.x = newX; group.y = newY; group.width = newW; group.height = newH
SnapGroup(group, targetNode) ==
    LET gx == Put(group, "x", Get(targetNode, "x"))
        gy == Put(gx, "y", Get(targetNode, "y"))
        gw == Put(gy, "width", Get(targetNode, "width"))
    IN  Put(gw, "height", Get(targetNode, "height"))

\* adjustGroupsInCanvas(canvasFile)
adjustGroupsInCanvas(content) ==
    IF ~content.ok THEN Notify(Outcome(FALSE, NoDoc, NullId), NoticeAdjustFailed)
    ELSE IF ~Has(content.doc, "nodes") THEN Outcome(FALSE, NoDoc, NullId)
    ELSE LET nodes == content.doc.nodes
             snapped == { i \in 1..Len(nodes) :
                            /\ TypeIs(nodes[i], "group")
                            /\ GroupTarget(nodes, nodes[i]) > 0
                            /\ GeometryDiffers(nodes[i],
                                               nodes[GroupTarget(nodes, nodes[i])]) }
             adjusted == [i \in 1..Len(nodes) |->
                            IF i \in snapped
                            THEN SnapGroup(nodes[i], nodes[GroupTarget(nodes, nodes[i])])
                            ELSE nodes[i]]
         IN  IF snapped # {}
             THEN Outcome(TRUE, WithNodes(content.doc, adjusted), NullId)
             ELSE Notify(Outcome(FALSE, WithNodes(content.doc, adjusted), NullId),
                         NoticeNothing)

----------------------------------------------------------------------------
(* Card Reconciliation Engine: the operations on one canvas file           *)

CardNote == <<"note", ".md">>
NumberedNote == <<"d", "/", "0", "1", " ", "B", ".md">>
CardNotes == {CardNote, NumberedNote}

\* a note whose description the metadata cache holds
Cached ==
    [description |-> JStr(<<"Summary text">>),
     content |-> <<"---", "NL", "description", ":", " ", "Summary text", "NL",
                   "---", "NL", "Body">>]

\* a note the cache has no description for: a block-style description
Uncached ==
    [description |-> JAbsent,
     content |-> <<"---", "NL", "description", ":", "NL", " ", " ",
                   "Summary text", "NL", "---", "NL", "Body">>]

\* a note whose cached description is not a string: a list item after the
\* label, up to a blank line
Edited ==
    [description |-> JNum(7),
     content |-> <<"Description", "FWCOLON", " ", "-", " ", "New item", "NL",
                   "NL", "Body">>]

NoteVersions == {Cached, Uncached, Edited}

\* the ids Math.random() yields
IdPool == {"r1", "r2"}

EmptyCanvas == [nodes |-> <<>>, edges |-> <<>>]

\* a frame that does not fit its one card, whose text is out of date; both
\* carry a field the plugin does not know, and the canvas has an edge and a
\* top-level field of its own
StaleDoc ==
    [nodes |-> << Put(GroupNode("g1", <<"note">>, 0, 0, 100, 100),
                      "background", JStr(<<"bg">>)),
                  Put(TextNode("t1",
                        <<"#", " ">> \o LB \o <<"note", "|", "note">> \o RB
                          \o <<"NL", "NL", "Old text">>,
                        10, 10, 50, 50),
                      "color", JStr(<<"3">>)) >>,
     edges |-> << [id |-> "e1", fromNode |-> "t1", toNode |-> "g1"] >>,
     meta |-> JStr(<<"v1">>)]

\* a file node of the note without a frame, and a frame of the numbered note
\* that holds two cards
FileDoc ==
    [nodes |-> << FileNode("f1", CardNote, 0, 0, 400, 400),
                  GroupNode("g2", Basename(NumberedNote), 0, 0, 1000, 1000),
                  TextNode("t2", LB \o Basename(NumberedNote) \o RB,
                           500, 500, 100, 100) >>]

\* a frame away from its card with no node inside, and a frame without a
\* label and without y
LooseDoc ==
    [nodes |-> << GroupNode("g3", <<"note">>, 0, 0, 10, 10),
                  TextNode("t3", <<"see", " ">> \o LB \o <<"note">> \o RB,
                           100, 0, 51, 51),
                  [id |-> "g4", type |-> "group",
                   x |-> R(0), width |-> R(5), height |-> R(5)] >>,
     edges |-> <<>>]

\* two cards that link the numbered note, both left of the origin
LeftDoc ==
    [nodes |-> << TextNode("t5", LB \o Basename(NumberedNote) \o <<"|", "x">> \o RB,
                           -500, 40, 100, 100),
                  TextNode("t6", LB \o Basename(NumberedNote) \o RB,
                           -300, -19, 50, 50) >>,
     edges |-> <<>>]

CardContents ==
    { BadJson, Content(DocNoNodes, FALSE), Content(EmptyCanvas, TRUE),
      Content(StaleDoc, FALSE), Content(FileDoc, TRUE), Content(LooseDoc, TRUE),
      Content(LeftDoc, TRUE) }

NoState == [k |-> "none"]

\* no operation has completed
NoOp == [op |-> "none", note |-> <<>>, ns |-> NoState, read |-> BadJson,
         mem |-> NoDoc, wrote |-> FALSE, ret |-> NullId,
         notice |-> <<>>, attempts |-> 0, rejected |-> FALSE]

\* what is kept of the operation before the last: the card it created
Summary(o) ==
    IF o.op = "add" /\ o.wrote
    THEN [created |-> TRUE, note |-> o.note, ns |-> o.ns, ret |-> o.ret]
    ELSE [created |-> FALSE, note |-> <<>>, ns |-> NoState, ret |-> NullId]

\* an operation settles with outcome res: the file holds
\* JSON.stringify(canvasData, null, "\t") when the write went through
Complete(op, path, ns, res) ==
    /\ canvasFile' = IF res.wrote THEN Content(res.mem, TRUE) ELSE canvasFile
    /\ lastOp' = [op |-> op, note |-> path, ns |-> ns, read |-> canvasFile,
                  mem |-> res.mem, wrote |-> res.wrote, ret |-> res.ret,
                  notice |-> res.notice, attempts |-> res.attempts,
                  rejected |-> res.rejected]
    /\ prevOp' = Summary(lastOp)
    /\ UNCHANGED <<variant, render, noteState, notCardVars>>

\* writeFails: the storage rejects the write of this call
AddToCanvas(path, groupId, nodeId, writeFails) ==
    /\ variant = "grouped"
    /\ Complete("add", path, noteState[path],
                Modify(addToCanvas(canvasFile, path, noteState[path], groupId, nodeId),
                       writeFails))

AddToCanvas_main(path, nodeId, writeFails) ==
    /\ variant = "sized"
    /\ Complete("add", path, noteState[path],
                Modify(addToCanvas_main(canvasFile, path, noteState[path], nodeId),
                       writeFails))

SyncNodeInCanvas(path, groupId, writeFails) ==
    /\ variant = "grouped"
    /\ Complete("sync", path, noteState[path],
                Modify(syncNodeInCanvas(canvasFile, path, noteState[path], groupId),
                       writeFails))

SyncNodeInCanvas_main(path, writeFails) ==
    /\ variant = "sized"
    /\ Complete("sync", path, noteState[path],
                Modify(syncNodeInCanvas_main(canvasFile, path, noteState[path]),
                       writeFails))

AdjustGroupsInCanvas(writeFails) ==
    /\ variant = "grouped"
    /\ Complete("adjust", <<>>, NoState,
                Modify_Caught(adjustGroupsInCanvas(canvasFile), writeFails))

\* the note is edited, or the metadata cache catches up with it
NoteEdit(path, ns) ==
    /\ noteState[path] # ns
    /\ noteState' = [noteState EXCEPT ![path] = ns]
    /\ UNCHANGED <<variant, render, canvasFile, lastOp, prevOp, notCardVars>>

----------------------------------------------------------------------------
(* Note modify: autoSyncToCanvases                                         *)

NoSweep ==
    [pc |-> "idle", note |-> <<>>, related |-> <<>>, k |-> 0, calls |-> <<>>,
     caught |-> <<>>]

NoAnswer == [fn |-> "none"]

\* the orders in which a Map may hold the keys S
Orders(S) ==
    { s \in [1..Cardinality(S) -> S] : \A i, j \in 1..Cardinality(S) : s[i] = s[j] => i = j }

\* every key of the index, whatever its set holds
RelatedCanvases_All(index, targetPath) == DOMAIN index

\* the canvas paths autoSyncToCanvases collects: refSet.has(targetPath)
RelatedCanvases(index, targetPath) ==
    { p \in DOMAIN index : targetPath \in index[p] }

\* this.app.vault.getAbstractFileByPath(path), as a set of at most one file
FileAt(path) == { f \in DOMAIN files : files[f].exists /\ files[f].path = path }

\* vault 'modify' on the note: autoSyncToCanvases(file) up to the loop;
\* related is relatedCanvases, in the order the Map yields its entries
AutoSyncStart(note, related) ==
    /\ sweep.pc \in {"idle", "done"}
    /\ related \in Orders(RelatedCanvases(canvasIndex, note))
    /\ sweep' = [pc |-> IF related = <<>> THEN "done" ELSE "loop",
                 note |-> note, related |-> related, k |-> 1, calls |-> <<>>,
                 caught |-> <<>>]
    /\ UNCHANGED <<indexVars, besideSweep>>

\* (a loop that stays on its path)
Advance_Stay(sw, called) ==
    [sw EXCEPT !.calls = IF called THEN Append(sw.calls, sw.related[sw.k]) ELSE sw.calls]

\* the loop moves on to the next path; called: syncNodeInCanvas was invoked
\* for the path at k
Advance(sw, called) ==
    [sw EXCEPT !.k = sw.k + 1,
               !.pc = IF sw.k + 1 > Len(sw.related) THEN "done" ELSE "loop",
               !.calls = IF called THEN Append(sw.calls, sw.related[sw.k]) ELSE sw.calls]

\* (a loop without the try: the error leaves autoSyncToCanvases)
Catch_Rethrow(sw, path, rejected) ==
    IF rejected THEN [sw EXCEPT !.pc = "raised"] ELSE sw

\* the catch of the loop body: an error syncNodeInCanvas raised for the path
\* is logged (caught: the paths logged so far) and the loop goes on
Catch(sw, path, rejected) ==
    IF rejected THEN [sw EXCEPT !.caught = Append(@, path)] ELSE sw

\* syncNodeInCanvas(canvasFile, file) of the build that runs
SyncCall(content, note, groupId) ==
    IF variant = "grouped"
    THEN syncNodeInCanvas(content, note, noteState[note], groupId)
    ELSE syncNodeInCanvas_main(content, note, noteState[note])

\* One pass of the loop: the path is looked up and, if a file is there,
\* syncNodeInCanvas is awaited; a write it makes raises 'modify' on the
\* canvas, whose handler starts indexSingleCanvas; a write that fails is
\* caught and logged.
AutoSyncPass(groupId, writeFails) ==
    /\ sweep.pc = "loop"
    /\ Cardinality(tasks) < MaxTasks
    /\ LET path == sweep.related[sweep.k]
       IN  IF FileAt(path) = {}
           THEN /\ sweep' = Advance(sweep, FALSE)
                /\ UNCHANGED <<files, tasks>>
           ELSE LET f   == CHOOSE g \in FileAt(path) : TRUE
                    res == Modify(SyncCall(files[f].content, sweep.note, groupId),
                                  writeFails)
                IN  /\ sweep' = Catch(Advance(sweep, TRUE), path, res.rejected)
                    /\ IF res.wrote
                       THEN /\ files' = [files EXCEPT ![f].content = Content(res.mem, TRUE)]
                            /\ tasks' = tasks \cup
                                 {[f |-> f, by |-> "event", old |-> <<>>, new |-> <<>>,
                                   buf |-> Content(res.mem, TRUE)]}
                       ELSE UNCHANGED <<files, tasks>>
    /\ ixLast' = NoResume
    /\ UNCHANGED <<canvasIndex, build, besideSweep>>

----------------------------------------------------------------------------
(* Reference scan: scanCanvasFiles and findPotentialCanvases               *)

\* getFirstLinkpathDest(linkText, '') over the whole vault, as resolveFile
\* uses it: a link that ends in the canvas extension names a canvas file, by
\* its path or, without a folder, by its name (the first in the vault's
\* order); any other link names a note.
resolveFile_Vault(linkText) ==
    IF linkText = <<>> THEN NULL
    ELSE IF Extension(linkText) = ".canvas"
    THEN LET named == { i \in 1..Len(FileOrder) :
                          /\ FileOrder[i] \in DOMAIN files
                          /\ files[FileOrder[i]].exists
                          /\ \/ files[FileOrder[i]].path = linkText
                             \/ /\ ~Includes(linkText, <<"/">>)
                                /\ SplitLast(files[FileOrder[i]].path, "/") = linkText }
             exact == { i \in named : files[FileOrder[i]].path = linkText }
             pick(S) == files[FileOrder[CHOOSE i \in S : \A j \in S : i <= j]].path
         IN  IF named = {} THEN NULL
             ELSE IF exact # {} THEN pick(exact) ELSE pick(named)
    ELSE getFirstLinkpathDest(linkText, <<>>)

\* the canvases the links of one canvas field resolve to, in order
RECURSIVE CanvasTargets(_)
CanvasTargets(links) ==
    IF links = <<>> THEN <<>>
    ELSE (IF resolveFile_Vault(Head(links)) # NULL
             /\ Extension(resolveFile_Vault(Head(links))) = ".canvas"
          THEN <<resolveFile_Vault(Head(links))>> ELSE <<>>)
           \o CanvasTargets(Tail(links))

\* (a forEach without the visited test: every parent joins the queue)
RECURSIVE EnqueueParents_All(_, _, _)
EnqueueParents_All(links, queue, visited) ==
    IF links = <<>> THEN [queue |-> queue, visited |-> visited]
    ELSE IF resolveFile_Vault(Head(links)) # NULL
    THEN EnqueueParents_All(Tail(links), Append(queue, resolveFile_Vault(Head(links))),
                            visited \cup {resolveFile_Vault(Head(links))})
    ELSE EnqueueParents_All(Tail(links), queue, visited)

\* upLinks.forEach: the parents not yet visited join the queue; the result
\* is [queue, visited]
RECURSIVE EnqueueParents(_, _, _)
EnqueueParents(links, queue, visited) ==
    IF links = <<>> THEN [queue |-> queue, visited |-> visited]
    ELSE IF resolveFile_Vault(Head(links)) # NULL
            /\ resolveFile_Vault(Head(links)) \notin visited
    THEN EnqueueParents(Tail(links), Append(queue, resolveFile_Vault(Head(links))),
                        visited \cup {resolveFile_Vault(Head(links))})
    ELSE EnqueueParents(Tail(links), queue, visited)

\* the while loop of findPotentialCanvases; a file without a cache entry is
\* passed over
RECURSIVE PotentialsFrom(_, _)
PotentialsFrom(queue, visited) ==
    IF queue = <<>> THEN <<>>
    ELSE IF Head(queue) \notin DOMAIN fm THEN PotentialsFrom(Tail(queue), visited)
    ELSE CanvasTargets(parseLinks(fm[Head(queue)].canvas))
           \o PotentialsFrom(
                EnqueueParents(parseLinks(fm[Head(queue)].up), Tail(queue), visited).queue,
                EnqueueParents(parseLinks(fm[Head(queue)].up), Tail(queue), visited).visited)

findPotentialCanvases(startFile) == PotentialsFrom(<<startFile>>, {startFile})

\* the first loop of scanCanvasFiles over the entries of the index, in the
\* Map's order: resultMap as the sequence of its values
RECURSIVE ExistingResults(_, _)
ExistingResults(order, targetPath) ==
    IF order = <<>> THEN <<>>
    ELSE (IF targetPath \in canvasIndex[Head(order)] /\ FileAt(Head(order)) # {}
          THEN << [path |-> Head(order), type |-> "existing"] >> ELSE <<>>)
           \o ExistingResults(Tail(order), targetPath)

\* resultMap.set(path, potential) without the test: the value at the key is
\* replaced
AddPotential_Replace(results, path) ==
    IF \E i \in 1..Len(results) : results[i].path = path
    THEN [i \in 1..Len(results) |->
            IF results[i].path = path THEN [path |-> path, type |-> "potential"]
            ELSE results[i]]
    ELSE Append(results, [path |-> path, type |-> "potential"])

\* `if (resultMap.has(canvas.path)) continue; resultMap.set(...)`
AddPotential(results, path) ==
    IF \E i \in 1..Len(results) : results[i].path = path
    THEN results
    ELSE Append(results, [path |-> path, type |-> "potential"])

RECURSIVE AddPotentials(_, _)
AddPotentials(results, potentials) ==
    IF potentials = <<>> THEN results
    ELSE AddPotentials(AddPotential(results, Head(potentials)), Tail(potentials))

\* Array.from(resultMap.values())
ScanResults(order, targetPath) ==
    AddPotentials(ExistingResults(order, targetPath), findPotentialCanvases(targetPath))

\* scanCanvasFiles(targetFile): the modal opens on the results, or a notice
\* says that there are none
scanCanvasFiles(targetPath, order) ==
    /\ order \in Orders(DOMAIN canvasIndex)
    /\ answer' = [fn |-> "scan", in |-> targetPath,
                  out |-> ScanResults(order, targetPath),
                  ui |-> IF ScanResults(order, targetPath) = <<>>
                         THEN "notice" ELSE "modal"]
    /\ UNCHANGED <<fm, notQueryVars>>

----------------------------------------------------------------------------
(* findPotentialCanvases, one pass of its while loop at a time             *)

\* findPotentialCanvases(startFile) up to the loop; dequeued: the files
\* queue.shift() has returned
SearchStart(startFile) ==
    /\ answer.fn \in {"none", "potentials"}
    /\ answer' = [fn |-> "search", in |-> startFile, queue |-> <<startFile>>,
                  visited |-> {startFile}, out |-> <<>>, dequeued |-> <<>>]
    /\ UNCHANGED <<fm, notQueryVars>>

\* one pass of the while loop: curr leaves the queue; without a cache entry
\* the pass ends there, otherwise its canvas links that resolve to a canvas
\* join potentials and its parents not yet visited join the queue
SearchPass ==
    /\ answer.fn = "search"
    /\ answer.queue # <<>>
    /\ \/ /\ Head(answer.queue) \notin DOMAIN fm
          /\ answer' = [answer EXCEPT !.queue = Tail(@),
                                     !.dequeued = Append(@, Head(answer.queue))]
       \/ /\ Head(answer.queue) \in DOMAIN fm
          /\ \E canvasLinks \in {parseLinks(fm[Head(answer.queue)].canvas)},
                upLinks \in {parseLinks(fm[Head(answer.queue)].up)} :
               \E next \in {EnqueueParents(upLinks, Tail(answer.queue), answer.visited)} :
                 answer' = [answer EXCEPT !.out = @ \o CanvasTargets(canvasLinks),
                                          !.queue = next.queue,
                                          !.visited = next.visited,
                                          !.dequeued = Append(@, Head(answer.queue))]
    /\ UNCHANGED <<fm, notQueryVars>>

\* the queue is empty: return potentials
SearchReturn ==
    /\ answer.fn = "search"
    /\ answer.queue = <<>>
    /\ answer' = [fn |-> "potentials", in |-> answer.in, out |-> answer.out,
                  dequeued |-> answer.dequeued]
    /\ UNCHANGED <<fm, notQueryVars>>

----------------------------------------------------------------------------
(* Neighbour discovery: getNeighbors and containsLink                      *)

\* map.set(path, f) on a Map kept as the sequence of its keys
MapAdd(keys, path) ==
    IF \E i \in 1..Len(keys) : keys[i] = path THEN keys ELSE Append(keys, path)

\* parseLinks(field).forEach(link => { const f = resolveFile(link);
\*                                     if (f) map.set(f.path, f); })
RECURSIVE AddResolved(_, _)
AddResolved(keys, links) ==
    IF links = <<>> THEN keys
    ELSE AddResolved(IF resolveFile_Vault(Head(links)) = NULL THEN keys
                     ELSE MapAdd(keys, resolveFile_Vault(Head(links))),
                     Tail(links))

\* the link itself is compared with the name
containsLink_Exact(field, targetBasename) ==
    \E i \in 1..Len(parseLinks(field)) : parseLinks(field)[i] = targetBasename

\* containsLink(field, targetBasename): some link's last path segment,
\* without a trailing .md, is the name
containsLink(field, targetBasename) ==
    \E i \in 1..Len(parseLinks(field)) :
        /\ SplitLast(parseLinks(field)[i], "/") # <<>>
        /\ StripMd(SplitLast(parseLinks(field)[i], "/")) = targetBasename

\* the loop over getMarkdownFiles(): the notes from position i on whose
\* field names the file join the map
RECURSIVE AddBackRefs(_, _, _, _)
AddBackRefs(keys, i, field, file) ==
    IF i > Len(MdFiles) THEN keys
    ELSE AddBackRefs(
           IF /\ MdFiles[i] # file
              /\ MdFiles[i] \in DOMAIN fm
              /\ ~Falsy(fm[MdFiles[i]][field])
              /\ containsLink(fm[MdFiles[i]][field], Basename(file))
           THEN MapAdd(keys, MdFiles[i]) ELSE keys,
           i + 1, field, file)

\* one of the two maps of getNeighbors: own is the field read on the file
\* itself, back the field read on the other notes
NeighborList(file, own, back) ==
    AddBackRefs(IF file \in DOMAIN fm
                THEN AddResolved(<<>>, parseLinks(fm[file][own])) ELSE <<>>,
                1, back, file)

getNeighbors(file) ==
    /\ answer' = [fn |-> "neighbors", in |-> file,
                  out |-> [prevs |-> NeighborList(file, "prev", "next"),
                           nexts |-> NeighborList(file, "next", "prev")]]
    /\ UNCHANGED <<fm, notQueryVars>>

----------------------------------------------------------------------------
(* Card Reconciliation Engine: calls that overlap on one canvas file       *)

\* who may have a call running at the same time: a command and the modify
\* handler, or two commands
Callers == {"c1", "c2"}

NoCall == [pc |-> "idle"]

NoCalls == [call |-> [c \in Callers |-> NoCall], done |-> <<>>]

\* `await this.app.vault.read(canvasFile)` has resolved: the call holds the
\* text it read; behind: the file has been written since
Reading(op, path) ==
    [pc |-> "read", op |-> op, note |-> path, read |-> canvasFile, behind |-> FALSE]

\* a call of caller c gets as far as its read
ReadBy(c, op, path) ==
    /\ ops.call[c].pc = "idle"
    /\ ops' = [ops EXCEPT !.call[c] = Reading(op, path)]
    /\ UNCHANGED <<crumbVars, zoomVars, indexVars, cardVars, sweepVars, queryVars>>

AddToCanvasRead(c, path) == ReadBy(c, "add", path)

SyncNodeInCanvasRead(c, path) == ReadBy(c, "sync", path)

AdjustGroupsInCanvasRead(c) == variant = "grouped" /\ ReadBy(c, "adjust", <<>>)

\* (a call that reads the file again before it writes)
Buffer_Reread(call) == canvasFile

\* what the call works on after its read: the text it was handed
Buffer(call) == call.read

\* the call from its read to its end, in the build that runs
RunCall(call, groupId, nodeId, writeFails) ==
    IF call.op = "add"
    THEN Modify(IF variant = "grouped"
                THEN addToCanvas(Buffer(call), call.note, noteState[call.note],
                                 groupId, nodeId)
                ELSE addToCanvas_main(Buffer(call), call.note, noteState[call.note],
                                      nodeId),
                writeFails)
    ELSE IF call.op = "sync"
    THEN Modify(SyncCall(Buffer(call), call.note, groupId), writeFails)
    ELSE Modify_Caught(adjustGroupsInCanvas(Buffer(call)), writeFails)

\* the call of c as it is once it returned res
Returned(call, res) ==
    [pc |-> "done", op |-> call.op, note |-> call.note, read |-> call.read,
     behind |-> call.behind, wrote |-> res.wrote, mem |-> res.mem, ret |-> res.ret]

\* the call of c returns res: vault.modify replaces the file's text with the
\* text the call built, and the calls still between read and write are behind
Return(c, res) ==
    /\ canvasFile' = IF res.wrote THEN Content(res.mem, TRUE) ELSE canvasFile
    /\ lastOp' = [op |-> ops.call[c].op, note |-> ops.call[c].note,
                  ns |-> IF ops.call[c].op = "adjust" THEN NoState
                         ELSE noteState[ops.call[c].note],
                  read |-> ops.call[c].read,
                  mem |-> res.mem, wrote |-> res.wrote, ret |-> res.ret,
                  notice |-> res.notice, attempts |-> res.attempts,
                  rejected |-> res.rejected]
    /\ prevOp' = Summary(lastOp)
    /\ ops' = [call |-> [d \in Callers |->
                           IF d = c THEN Returned(ops.call[c], res)
                           ELSE IF ops.call[d].pc = "read" /\ res.wrote
                           THEN [ops.call[d] EXCEPT !.behind = TRUE]
                           ELSE ops.call[d]],
               done |-> Append(ops.done, c)]
    /\ UNCHANGED <<variant, render, noteState, crumbVars, zoomVars, indexVars,
                   sweepVars, queryVars>>

\* the call of c runs from its read to its end; groupId and nodeId are the
\* Math.random() ids it draws
Writeback(c, groupId, nodeId, writeFails) ==
    /\ ops.call[c].pc = "read"
    /\ Return(c, RunCall(ops.call[c], groupId, nodeId, writeFails))

----------------------------------------------------------------------------
(* Specifications: each runs one component and holds the others still     *)

CrumbIdle ==
    /\ bcUp = [n \in CrumbNotes |-> JAbsent]
    /\ bcPc = "idle"
    /\ bcStart = NULL
    /\ bcCurr = NULL
    /\ bcSeen = {}
    /\ bcPath = <<>>

ZoomIdle ==
    /\ zPc = "idle"
    /\ zIsId = FALSE
    /\ zAttempts = 0
    /\ zView = "nocanvas"
    /\ zSelected = FALSE

IndexIdle ==
    /\ files = [f \in {"F1"} |-> [exists |-> FALSE, path |-> PathFC, content |-> BadJson]]
    /\ canvasIndex = <<>>
    /\ tasks = {}
    /\ build = [pc |-> "idle", list |-> <<>>, i |-> 0]
    /\ ixLast = NoResume

CardIdle ==
    /\ variant = "grouped"
    /\ render = CHOOSE r \in RenderProfiles : r.ink = 100
    /\ canvasFile = BadJson
    /\ noteState = [n \in CardNotes |-> Cached]
    /\ lastOp = NoOp
    /\ prevOp = Summary(NoOp)

SweepIdle == sweep = NoSweep

QueryIdle ==
    /\ fm = <<>>
    /\ answer = NoAnswer

RaceIdle == ops = NoCalls

CrumbInit ==
    /\ bcUp \in [CrumbNotes -> UpValues]
    /\ bcPc = "idle"
    /\ bcStart = NULL
    /\ bcCurr = NULL
    /\ bcSeen = {}
    /\ bcPath = <<>>
    /\ ZoomIdle
    /\ SweepIdle
    /\ RaceIdle
    /\ QueryIdle
    /\ IndexIdle
    /\ CardIdle

CrumbNext ==
    \/ \E file \in CrumbNotes : BreadcrumbStart(file)
    \/ BreadcrumbStep
    \/ BreadcrumbReturn

SpecCrumb == CrumbInit /\ [][CrumbNext]_vars

ZoomInit ==
    /\ CrumbIdle
    /\ SweepIdle
    /\ RaceIdle
    /\ QueryIdle
    /\ zPc = "idle"
    /\ zIsId = FALSE
    /\ zAttempts = 0
    /\ zView \in ViewStates
    /\ zSelected = FALSE
    /\ IndexIdle
    /\ CardIdle

ZoomNext ==
    \/ \E isId \in BOOLEAN : tryZoomToNode(isId)
    \/ \E v \in ViewStates : ViewChange(v)
    \/ PollTick
    \/ ZoomReset

SpecZoom == ZoomInit /\ [][ZoomNext]_vars

\* The plugin has loaded: the index is empty, the vault holds its canvases.
IndexInit ==
    /\ CrumbIdle
    /\ ZoomIdle
    /\ SweepIdle
    /\ RaceIdle
    /\ QueryIdle
    /\ \E c \in IndexContents :
         files = [f \in {"F1"} |-> [exists |-> TRUE, path |-> PathFC, content |-> c]]
    /\ canvasIndex = <<>>
    /\ tasks = {}
    /\ build = [pc |-> "idle", list |-> <<>>, i |-> 0]
    /\ ixLast = NoResume
    /\ CardIdle

IndexNext ==
    \/ \E f \in DOMAIN files, c \in IndexContents : CanvasModify(f, c)
    \/ \E f \in DOMAIN files : CanvasDelete(f)
    \/ \E f \in DOMAIN files, newPath \in CanvasPaths : CanvasRename(f, newPath)
    \/ BuildStart
    \/ BuildResume
    \/ \E t \in tasks, rejected \in BOOLEAN : IndexResume(t, rejected)

SpecIndex == IndexInit /\ [][IndexNext]_vars

\* The batch build on its own: six files, no vault event while it runs.
BuildPath(f) == <<"b", "/", f, ".canvas">>

\* what the files of the build hold: text that is not JSON, a file whose read
\* rejects, the JSON text `null`, and a canvas with references
BuildContents == { BadJson, ReadFailed, NullJson, Content(DocRefs, TRUE) }

\* F1, F2 and F6 hold any of the contents, F3..F5 a canvas without nodes; F6
\* may be missing, and then the build has a single batch
BuildInit ==
    /\ CrumbIdle
    /\ ZoomIdle
    /\ SweepIdle
    /\ RaceIdle
    /\ QueryIdle
    /\ CardIdle
    /\ \E c1 \in BuildContents, c2 \in BuildContents, has6 \in BOOLEAN :
       \E c6 \in (IF has6 THEN BuildContents ELSE {BadJson}) :
         files = [f \in {"F1", "F2", "F3", "F4", "F5", "F6"} |->
                    [exists  |-> (f # "F6" \/ has6),
                     path    |-> BuildPath(f),
                     content |-> CASE f = "F1" -> c1
                                   [] f = "F2" -> c2
                                   [] f = "F6" -> c6
                                   [] OTHER -> Content(DocNoNodes, FALSE)]]
    /\ canvasIndex = <<>>
    /\ tasks = {}
    /\ build = [pc |-> "idle", list |-> <<>>, i |-> 0]
    /\ ixLast = NoResume

BuildNext ==
    \/ BuildStart
    \/ BuildResume
    \/ \E t \in tasks, rejected \in BOOLEAN : IndexResume(t, rejected)

\* a read that is pending settles: its task leaves `tasks`
ReadSettles == \E t \in tasks : tasks' = tasks \ {t}

\* the build starts once the layout is ready, a pending read settles, and
\* the promise of a batch and the timer between two batches fire
SpecBuild ==
    /\ BuildInit
    /\ [][BuildNext]_vars
    /\ WF_vars(BuildStart)
    /\ WF_vars(BuildResume)
    /\ WF_tasks(ReadSettles)

CardInit ==
    /\ CrumbIdle
    /\ ZoomIdle
    /\ SweepIdle
    /\ RaceIdle
    /\ QueryIdle
    /\ IndexIdle
    /\ variant \in {"grouped", "sized"}
    /\ render \in RenderProfiles
    /\ canvasFile \in CardContents
    /\ \E ns \in NoteVersions :
         noteState = [n \in CardNotes |-> IF n = CardNote THEN ns ELSE Cached]
    /\ lastOp = NoOp
    /\ prevOp = Summary(NoOp)

\* the operations on a storage that accepts every write
CardNext ==
    \/ \E path \in CardNotes, groupId \in IdPool, nodeId \in IdPool :
          AddToCanvas(path, groupId, nodeId, FALSE)
    \/ \E path \in CardNotes, nodeId \in IdPool : AddToCanvas_main(path, nodeId, FALSE)
    \/ \E path \in CardNotes, groupId \in IdPool : SyncNodeInCanvas(path, groupId, FALSE)
    \/ \E path \in CardNotes : SyncNodeInCanvas_main(path, FALSE)
    \/ AdjustGroupsInCanvas(FALSE)
    \/ \E ns \in NoteVersions : NoteEdit(CardNote, ns)

SpecCard == CardInit /\ [][CardNext]_vars

\* the operations on a storage that may reject a write
CardIONext ==
    \/ \E path \in CardNotes, groupId \in IdPool, nodeId \in IdPool, writeFails \in BOOLEAN :
          AddToCanvas(path, groupId, nodeId, writeFails)
    \/ \E path \in CardNotes, nodeId \in IdPool, writeFails \in BOOLEAN :
          AddToCanvas_main(path, nodeId, writeFails)
    \/ \E path \in CardNotes, groupId \in IdPool, writeFails \in BOOLEAN :
          SyncNodeInCanvas(path, groupId, writeFails)
    \/ \E path \in CardNotes, writeFails \in BOOLEAN : SyncNodeInCanvas_main(path, writeFails)
    \/ \E writeFails \in BOOLEAN : AdjustGroupsInCanvas(writeFails)
    \/ \E ns \in NoteVersions : NoteEdit(CardNote, ns)

\* one text measurement is enough where the writes are what is looked at
CardIOInit ==
    /\ CardInit
    /\ render = CHOOSE r \in RenderProfiles : r.ink = 100

SpecCardIO == CardIOInit /\ [][CardIONext]_vars

\* The adjustment pass on a group with its card and one more node, the
\* probe, whose centre and size vary.
ProbeCentres == {-1, 0, 50, 100, 101, 150}
ProbeSizes == {0, 10, 400}

\* the group (0,0,100,100) of the note, the note's card inside it with a
\* rectangle of its own, and a file node of size w x h centred at (cx, cy)
ProbeDoc(cx, cy, w, h) ==
    [nodes |-> << GroupNode("B", <<"note">>, 0, 0, 100, 100),
                  TextNode("A", LB \o <<"note">> \o RB, 20, 20, 40, 40),
                  [id |-> "P", type |-> "file", file |-> <<"Other", ".md">>,
                   x |-> Rat(2 * cx - w, 2), y |-> Rat(2 * cy - h, 2),
                   width |-> R(w), height |-> R(h)] >>,
     edges |-> <<>>]

AdjustInit ==
    /\ CrumbIdle
    /\ ZoomIdle
    /\ SweepIdle
    /\ RaceIdle
    /\ QueryIdle
    /\ IndexIdle
    /\ variant = "grouped"
    /\ render = CHOOSE r \in RenderProfiles : r.ink = 100
    /\ \E cx \in ProbeCentres, cy \in ProbeCentres, w \in ProbeSizes, h \in ProbeSizes :
         canvasFile = Content(ProbeDoc(cx, cy, w, h), TRUE)
    /\ noteState = [n \in CardNotes |-> Cached]
    /\ lastOp = NoOp
    /\ prevOp = Summary(NoOp)

AdjustNext == AdjustGroupsInCanvas(FALSE)

SpecAdjust == AdjustInit /\ [][AdjustNext]_vars

\* Note modify events while the index is maintained: two canvases, and the
\* index as a completed build left it; a canvas may be deleted, or edited so
\* that it no longer refers to the note
SweepContents ==
    { BadJson, Content(StaleDoc, FALSE), Content(FileDoc, TRUE), Content(DocRefs, TRUE) }

BuiltIndex(fs) ==
    [p \in { fs[f].path : f \in { g \in DOMAIN fs : fs[g].exists /\ fs[g].content.ok } } |->
        ReferencedPaths((CHOOSE c \in { fs[f].content : f \in { g \in DOMAIN fs : fs[g].path = p } } : TRUE).doc,
                        p)]

SweepInit ==
    /\ CrumbIdle
    /\ ZoomIdle
    /\ QueryIdle
    /\ variant \in {"grouped", "sized"}
    /\ render = CHOOSE r \in RenderProfiles : r.ink = 100
    /\ canvasFile = BadJson
    /\ noteState = [n \in CardNotes |-> Cached]
    /\ lastOp = NoOp
    /\ prevOp = Summary(NoOp)
    /\ \E c1 \in SweepContents, c2 \in SweepContents :
         files = [f \in {"F1", "F2"} |->
                    [exists |-> TRUE, path |-> BuildPath(f),
                     content |-> IF f = "F1" THEN c1 ELSE c2]]
    /\ canvasIndex = BuiltIndex(files)
    /\ tasks = {}
    /\ build = [pc |-> "idle", list |-> <<>>, i |-> 0]
    /\ ixLast = NoResume
    /\ sweep = NoSweep
    /\ RaceIdle

SweepNext ==
    \/ \E note \in CardNotes :
         \E related \in Orders(RelatedCanvases(canvasIndex, note)) :
            AutoSyncStart(note, related)
    \/ \E writeFails \in BOOLEAN : AutoSyncPass("r1", writeFails)
    \/ \E f \in DOMAIN files : CanvasModify(f, Content(DocRefs, TRUE))
    \/ \E f \in DOMAIN files : CanvasDelete(f)
    \/ \E t \in tasks, rejected \in BOOLEAN : IndexResume(t, rejected)

SpecSweep == SweepInit /\ [][SweepNext]_vars

\* Reference scans: two notes with frontmatter, two canvases (the first may
\* be gone), and an index that may lack an entry or hold one for a canvas
\* that is gone
NoteB == <<"B", ".md">>
NoteC == <<"C", ".md">>

Fm(canvas, up, prev, next) == [canvas |-> canvas, up |-> up, prev |-> prev, next |-> next]

WikiLink(target) == JStr(LB \o target \o RB)

CanvasFields ==
    { JAbsent,
      WikiLink(PathFC),
      JStr(<<"c", ".canvas">>),
      JList(<< WikiLink(PathGC \o <<"|", "x">>), JNum(7), WikiLink(PathGC) >>),
      WikiLink(<<"C">>) }

ScanEntries == { <<>>, <<{}>>, <<{NoteB}>>, <<{NoteB, NoteC}>> }

\* an index with the entries e1 and e2 (<<>>: no entry) for the two paths
ScanIndex(e1, e2) ==
    [p \in (IF e1 = <<>> THEN {} ELSE {PathFC}) \cup (IF e2 = <<>> THEN {} ELSE {PathGC}) |->
        IF p = PathFC THEN e1[1] ELSE e2[1]]

ScanInit ==
    /\ CrumbIdle
    /\ ZoomIdle
    /\ CardIdle
    /\ SweepIdle
    /\ RaceIdle
    /\ \E has1 \in BOOLEAN :
         files = [f \in {"F1", "F2"} |->
                    [exists |-> (f = "F2" \/ has1),
                     path |-> IF f = "F1" THEN PathFC ELSE PathGC,
                     content |-> BadJson]]
    /\ \E e1 \in ScanEntries, e2 \in ScanEntries \ {<<{}>>} : canvasIndex = ScanIndex(e1, e2)
    /\ tasks = {}
    /\ build = [pc |-> "idle", list |-> <<>>, i |-> 0]
    /\ ixLast = NoResume
    /\ \E cB \in CanvasFields, cC \in CanvasFields,
          uB \in { JAbsent, WikiLink(<<"C">>),
                   JList(<< WikiLink(<<"B">>), WikiLink(<<"C">>), JStr(<<"C">>) >>) },
          uC \in { JAbsent, WikiLink(<<"B">>) } :
         fm = [n \in {NoteB, NoteC} |->
                 IF n = NoteB THEN Fm(cB, uB, JAbsent, JAbsent)
                 ELSE Fm(cC, uC, JAbsent, JAbsent)]
    /\ answer = NoAnswer

ScanNext ==
    \E targetPath \in {NoteB, NoteC} :
       \E order \in Orders(DOMAIN canvasIndex) : scanCanvasFiles(targetPath, order)

SpecScan == ScanInit /\ [][ScanNext]_vars

\* Neighbour queries: three notes with prev and next fields among the five
\* of the vault; two notes share the name A
NeighborFields ==
    { JAbsent,
      WikiLink(<<"A">>),
      JList(<< WikiLink(<<"g", "/", "A", "|", "x">>), WikiLink(<<"B">>),
               JNum(3), JStr(NoteB) >>),
      JStr(<<"C">>) }

NeighborInit ==
    /\ CrumbIdle
    /\ ZoomIdle
    /\ IndexIdle
    /\ CardIdle
    /\ SweepIdle
    /\ RaceIdle
    /\ \E pA \in {JAbsent, WikiLink(<<"B">>)},
          pB \in NeighborFields, nB \in NeighborFields,
          pC \in NeighborFields, nC \in NeighborFields :
         fm = [n \in {<<"f", "/", "A", ".md">>, NoteB, NoteC} |->
                 IF n = NoteB THEN Fm(JAbsent, JAbsent, pB, nB)
                 ELSE IF n = NoteC THEN Fm(JAbsent, JAbsent, pC, nC)
                 ELSE Fm(JAbsent, JAbsent, pA, WikiLink(<<"Z">>))]
    /\ answer = NoAnswer

NeighborNext == \E file \in MdSet : getNeighbors(file)

SpecNeighbors == NeighborInit /\ [][NeighborNext]_vars

\* Link extraction and field parsing on their own: a text built of up to
\* MaxPieces pieces, or a frontmatter field, is handed to the function
MaxPieces == 5
MaxItems == 2

LinkPieces ==
    { LB, RB, <<"a">>, <<"|">>, <<"NL">>, <<"]">>, LB \o <<"a">> \o RB }

RECURSIVE TextsUpTo(_)
TextsUpTo(n) ==
    IF n = 0 THEN {<<>>}
    ELSE TextsUpTo(n - 1) \cup { t \o p : t \in TextsUpTo(n - 1), p \in LinkPieces }

\* the entries of a field: strings with and without a link, a number, null
FieldItems ==
    { JStr(<<>>), JStr(<<"a">>), JStr(LB \o <<"a">> \o RB),
      JStr(LB \o <<"a", "/", "b", "|", "c">> \o RB),
      JStr(LB \o RB), JStr(LB \o <<"|", "c">> \o RB),
      JStr(<<"x", " ">> \o LB \o <<"b">> \o RB \o <<" ">> \o LB \o <<"a">> \o RB),
      JStr(LB \o <<"a">>), JNum(7), JNull }

RECURSIVE ListsUpTo(_)
ListsUpTo(n) ==
    IF n = 0 THEN {<<>>}
    ELSE ListsUpTo(n - 1) \cup { Append(l, i) : l \in ListsUpTo(n - 1), i \in FieldItems }

Fields == FieldItems \cup {JAbsent, JNum(0)} \cup { JList(l) : l \in ListsUpTo(MaxItems) }

\* extractWikiLinks(text) returns
ExtractWikiLinks ==
    /\ answer.fn = "extractWikiLinks"
    /\ answer' = [fn |-> "links", in |-> answer.in, out |-> extractWikiLinks(answer.in)]
    /\ UNCHANGED <<fm, notQueryVars>>

\* parseLinks(field) returns
ParseLinks ==
    /\ answer.fn = "parseLinks"
    /\ answer' = [fn |-> "parsed", in |-> answer.in, out |-> parseLinks(answer.in)]
    /\ UNCHANGED <<fm, notQueryVars>>

LinksInit ==
    /\ CrumbIdle
    /\ ZoomIdle
    /\ IndexIdle
    /\ CardIdle
    /\ SweepIdle
    /\ RaceIdle
    /\ fm = <<>>
    /\ \/ \E text \in TextsUpTo(MaxPieces) : answer = [fn |-> "extractWikiLinks", in |-> text]
       \/ \E field \in Fields : answer = [fn |-> "parseLinks", in |-> field]

LinksNext == ExtractWikiLinks \/ ParseLinks

SpecLinks == LinksInit /\ [][LinksNext]_vars

\* Two callers, each with one call on the same canvas file: the reads and
\* the write-backs interleave freely, and the storage may reject a write
RaceContents ==
    { BadJson, Content(EmptyCanvas, TRUE), Content(StaleDoc, FALSE),
      Content(FileDoc, TRUE), Content(LooseDoc, TRUE) }

RaceInit ==
    /\ CrumbIdle
    /\ ZoomIdle
    /\ SweepIdle
    /\ QueryIdle
    /\ IndexIdle
    /\ variant \in {"grouped", "sized"}
    /\ render = CHOOSE r \in RenderProfiles : r.ink = 100
    /\ canvasFile \in RaceContents
    /\ \E ns \in NoteVersions :
         noteState = [n \in CardNotes |-> IF n = CardNote THEN ns ELSE Cached]
    /\ lastOp = NoOp
    /\ prevOp = Summary(NoOp)
    /\ ops = NoCalls

RaceNext ==
    \/ \E c \in Callers, path \in CardNotes : AddToCanvasRead(c, path)
    \/ \E c \in Callers, path \in CardNotes : SyncNodeInCanvasRead(c, path)
    \/ \E c \in Callers : AdjustGroupsInCanvasRead(c)
    \/ \E c \in Callers, groupId \in IdPool, nodeId \in IdPool, writeFails \in BOOLEAN :
          Writeback(c, groupId, nodeId, writeFails)

SpecRace == RaceInit /\ [][RaceNext]_vars

\* The index while canvases are written: the build and the modify handler
\* start indexSingleCanvas calls on two canvases, and no file is deleted or
\* renamed
ReindexInit ==
    /\ CrumbIdle
    /\ ZoomIdle
    /\ SweepIdle
    /\ RaceIdle
    /\ QueryIdle
    /\ CardIdle
    /\ \E c1 \in IndexContents, c2 \in IndexContents :
         files = [f \in {"F1", "F2"} |->
                    [exists |-> TRUE, path |-> BuildPath(f),
                     content |-> IF f = "F1" THEN c1 ELSE c2]]
    /\ canvasIndex = <<>>
    /\ tasks = {}
    /\ build = [pc |-> "idle", list |-> <<>>, i |-> 0]
    /\ ixLast = NoResume

ReindexNext ==
    \/ \E f \in DOMAIN files, c \in IndexContents : CanvasModify(f, c)
    \/ BuildStart
    \/ BuildResume
    \/ \E t \in tasks : IndexResume(t, FALSE)

SpecReindex == ReindexInit /\ [][ReindexNext]_vars

\* One note modify event on a quiet system and what follows from it: no
\* other event arrives.  A pass of the loop that can run does run, and a
\* pending read settles.
CascadeNext ==
    \/ \E note \in CardNotes :
         \E related \in Orders(RelatedCanvases(canvasIndex, note)) :
            sweep.pc = "idle" /\ AutoSyncStart(note, related)
    \/ \E writeFails \in BOOLEAN : AutoSyncPass("r1", writeFails)
    \/ \E t \in tasks : IndexResume(t, FALSE)

\* the loop of autoSyncToCanvases moves on by one path
LoopMoves ==
    /\ sweep.pc = "loop"
    /\ Cardinality(tasks) < MaxTasks
    /\ \E called \in BOOLEAN : sweep' = Advance(sweep, called)

SpecCascade ==
    /\ SweepInit
    /\ [][CascadeNext]_vars
    /\ WF_sweep(LoopMoves)
    /\ WF_tasks(ReadSettles)

\* Creating a card and adjusting the groups right after: canvases with and
\* without nodes, among them one with a file node of another note that has
\* the note's name
NamesakeDoc ==
    [nodes |-> << FileNode("f7", <<"d", "/", "note", ".md">>, 0, 0, 400, 400) >>,
     edges |-> <<>>]

\* a group whose label no node links, and a group away from its card
OrphanDoc ==
    [nodes |-> << GroupNode("g9", <<"old">>, 0, 0, 10, 10),
                  GroupNode("g10", <<"note">>, 90, 0, 10, 10),
                  TextNode("t9", LB \o <<"note">> \o RB, 100, 0, 51, 51) >>,
     edges |-> << [id |-> "e9", fromNode |-> "t9", toNode |-> "g9"] >>]

FollowContents ==
    { Content(EmptyCanvas, TRUE), Content(LooseDoc, TRUE), Content(LeftDoc, TRUE),
      Content(FileDoc, TRUE), Content(NamesakeDoc, TRUE), Content(OrphanDoc, TRUE) }

FollowInit ==
    /\ CrumbIdle
    /\ ZoomIdle
    /\ SweepIdle
    /\ RaceIdle
    /\ QueryIdle
    /\ IndexIdle
    /\ variant = "grouped"
    /\ render \in RenderProfiles
    /\ canvasFile \in FollowContents
    /\ \E ns \in NoteVersions :
         noteState = [n \in CardNotes |-> IF n = CardNote THEN ns ELSE Cached]
    /\ lastOp = NoOp
    /\ prevOp = Summary(NoOp)

FollowNext ==
    \/ \E path \in CardNotes, groupId \in IdPool, nodeId \in IdPool :
          AddToCanvas(path, groupId, nodeId, FALSE)
    \/ AdjustGroupsInCanvas(FALSE)

SpecFollow == FollowInit /\ [][FollowNext]_vars

\* syncNodeInCanvas on its own, run again and again on canvases of every
\* kind; PrefixDoc holds a card written by hand and the card and group of
\* the note 'notes', whose name starts with 'note'
PrefixDoc ==
    [nodes |-> << TextNode("h1", <<"see", " ">> \o LB \o <<"note">> \o RB
                                   \o <<" ", "today">>,
                           0, 0, 200, 100),
                  GroupNode("g8", <<"note", "s">>, 300, 0, 200, 100),
                  TextNode("p1", <<"#", " ">> \o LB \o <<"note", "s", "|", "note", "s">>
                                   \o RB \o <<"NL", "NL", "Other text">>,
                           300, 0, 200, 100) >>,
     edges |-> <<>>]

SyncContents == CardContents \cup { Content(PrefixDoc, TRUE), Content(NamesakeDoc, TRUE) }

SyncInit ==
    /\ CrumbIdle
    /\ ZoomIdle
    /\ SweepIdle
    /\ RaceIdle
    /\ QueryIdle
    /\ IndexIdle
    /\ variant \in {"grouped", "sized"}
    /\ render \in RenderProfiles
    /\ canvasFile \in SyncContents
    /\ \E ns \in NoteVersions :
         noteState = [n \in CardNotes |-> IF n = CardNote THEN ns ELSE Cached]
    /\ lastOp = NoOp
    /\ prevOp = Summary(NoOp)

SyncNext ==
    \/ \E path \in CardNotes, groupId \in IdPool : SyncNodeInCanvas(path, groupId, FALSE)
    \/ \E path \in CardNotes : SyncNodeInCanvas_main(path, FALSE)
    \/ \E ns \in NoteVersions : NoteEdit(CardNote, ns)

SpecSync == SyncInit /\ [][SyncNext]_vars

\* Searches over up link graphs: three notes with a cache entry, each with
\* no parent, itself and another note, or three parents of which one has no
\* cache entry, so that chains, cycles and shared parents all occur
UpFields ==
    { JAbsent, WikiLink(<<"C">>),
      JList(<< WikiLink(<<"B">>), WikiLink(<<"C">>) >>),
      JList(<< WikiLink(<<"note">>), WikiLink(<<"A">>), WikiLink(<<"C">>) >>) }

SearchInit ==
    /\ CrumbIdle
    /\ ZoomIdle
    /\ CardIdle
    /\ SweepIdle
    /\ RaceIdle
    /\ files = [f \in {"F1", "F2"} |->
                  [exists |-> TRUE,
                   path |-> IF f = "F1" THEN PathFC ELSE PathGC,
                   content |-> BadJson]]
    /\ canvasIndex = <<>>
    /\ tasks = {}
    /\ build = [pc |-> "idle", list |-> <<>>, i |-> 0]
    /\ ixLast = NoResume
    /\ \E uB \in UpFields, uC \in UpFields, uN \in UpFields,
          cC \in {JAbsent, WikiLink(PathGC)} :
         fm = [n \in {NoteB, NoteC, CardNote} |->
                 IF n = NoteB THEN Fm(JAbsent, uB, JAbsent, JAbsent)
                 ELSE IF n = NoteC THEN Fm(cC, uC, JAbsent, JAbsent)
                 ELSE Fm(WikiLink(PathFC), uN, JAbsent, JAbsent)]
    /\ answer = NoAnswer

SearchNext ==
    \/ \E startFile \in {NoteB, NoteC, CardNote} : SearchStart(startFile)
    \/ SearchPass
    \/ SearchReturn

\* the function runs to its end without a suspension point
SpecSearch ==
    /\ SearchInit
    /\ [][SearchNext]_vars
    /\ WF_answer(SearchPass)
    /\ WF_answer(SearchReturn)

----------------------------------------------------------------------------
(* Properties                                                              *)

\* C9: every polling loop ends: once the budget of 30 attempts has elapsed
\* the interval has been cleared, whatever the opened view does.
C9_ClearedAtBudget ==
    zAttempts >= maxAttempts => zPc # "polling"

NoteA == <<"f", "/", "A", ".md">>

\* C10: for every `up` relation (cycles and self-parents included) the climb
\* is bounded: every iteration that continues adds a note not seen before, so
\* the path never repeats a note and never grows past the number of notes;
\* the returned path is a root-first parent chain that ends in the current
\* note, and when A's parent is B and B's parent is A the path for A is (B, A).
C10_CycleSafe ==
    /\ Len(bcPath) = Cardinality(bcSeen)
    /\ Len(bcPath) <= Cardinality(MdSet)
    /\ \A i, j \in 1..Len(bcPath) : bcPath[i] = bcPath[j] => i = j
    /\ bcPc = "done" =>
          /\ bcPath # <<>>
          /\ bcPath[Len(bcPath)] = bcStart
          /\ \A i \in 1..(Len(bcPath) - 1) : bcPath[i] = getParentFile(bcPath[i + 1])
          /\ bcCurr = NULL \/ bcCurr \in bcSeen
    /\ (bcPc = "done" /\ bcStart = NoteA
          /\ getParentFile(NoteA) = NoteB /\ getParentFile(NoteB) = NoteA)
          => bcPath = <<NoteB, NoteA>>

C10_Witness ==
    /\ bcPc = "done"
    /\ bcStart = NoteA
    /\ getParentFile(NoteA) = NoteB
    /\ getParentFile(NoteB) = NoteA
    /\ bcPath = <<NoteB, NoteA>>

\* C2: every key of canvasIndex is the current path of a canvas file that
\* exists in the vault, in every reachable state.
C2_NoStaleKey ==
    \A k \in DOMAIN canvasIndex :
        /\ Extension(k) = ".canvas"
        /\ \E f \in DOMAIN files : files[f].exists /\ files[f].path = k

\* the file nodes of a parsed canvas
FileNodeRefs(doc) ==
    { NodesOf(doc)[i].file :
        i \in { j \in 1..Len(NodesOf(doc)) :
                  NodesOf(doc)[j].type = "file" /\ Has(NodesOf(doc)[j], "file") } }

TextCaptures(doc) ==
    UNION { LET n == NodesOf(doc)[i]
                caps == IF n.type = "text" /\ Has(n, "text")
                        THEN WikiCaptures(n.text, 1) ELSE <<>>
            IN  { caps[j] : j \in 1..Len(caps) } : i \in 1..Len(NodesOf(doc)) }

----------------------------------------------------------------------------
(* Properties of the card reconciliation engine                            *)

\* the nodes the last operation read
ReadNodes == IF lastOp.read.ok THEN NodesOf(lastOp.read.doc) ELSE <<>>

\* the last operation parsed a document with a nodes list
ReadHasNodes == lastOp.read.ok /\ Has(lastOp.read.doc, "nodes")

\* the last call follows, for the same pair and with the note unchanged, a
\* call of addToCanvas that created the pair's card
SecondCall ==
    /\ prevOp.created
    /\ lastOp.op \in {"add", "sync"}
    /\ lastOp.note = prevOp.note
    /\ lastOp.ns = prevOp.ns

\* C1: create-or-sync is idempotent.  Once addToCanvas has created the card
\* of a note, an immediately following addToCanvas or syncNodeInCanvas for
\* the same canvas and unchanged note makes no write, leaves the canvas file
\* as it read it (byte-identical, no node added), and addToCanvas returns the
\* id of the card the first call created.
C1_Idempotent ==
    SecondCall =>
        /\ ~lastOp.wrote
        /\ canvasFile = lastOp.read
        /\ lastOp.op = "add" => lastOp.ret = prevOp.ret

C1_Witness ==
    /\ SecondCall
    /\ variant = "grouped"
    /\ lastOp.op = "sync"
    /\ lastOp.ret = prevOp.ret
    /\ lastOp.ret \in IdPool

\* a and b agree on every field outside `fields`
SameExcept(a, b, fields) ==
    /\ DOMAIN a \ fields = DOMAIN b \ fields
    /\ \A k \in DOMAIN a \ fields : a[k] = b[k]

\* the fields the last operation may assign in the node read at position i
Assigned(i) ==
    IF lastOp.op = "sync" /\ i \in TextMatches(ReadNodes, lastOp.note)
    THEN IF variant = "grouped" THEN {"text"} ELSE {"text", "width", "height"}
    ELSE IF lastOp.op = "adjust" /\ TypeIs(ReadNodes[i], "group") THEN Geometry
    ELSE {}

\* the nodes the last operation put in front of those it read
Shift == IF lastOp.op = "sync" THEN Len(canvasFile.doc.nodes) - Len(ReadNodes) ELSE 0

\* C5: round-trip preservation.  Whenever addToCanvas, syncNodeInCanvas or
\* adjustGroupsInCanvas rewrites the canvas, the written document has the
\* edges and every other top-level field but nodes as read, and every node
\* that was read is still there, in order, with every field the operation
\* does not assign (unknown fields included) as read.
C5_RoundTrip ==
    lastOp.wrote =>
        /\ canvasFile = Content(lastOp.mem, TRUE)
        /\ SameExcept(canvasFile.doc, lastOp.read.doc, {"nodes"})
        /\ Shift \in {0, 1}
        /\ Len(canvasFile.doc.nodes) >= Len(ReadNodes) + Shift
        /\ lastOp.op # "add" => Len(canvasFile.doc.nodes) = Len(ReadNodes) + Shift
        /\ \A i \in 1..Len(ReadNodes) :
             SameExcept(canvasFile.doc.nodes[i + Shift], ReadNodes[i], Assigned(i))

C5_Witness ==
    /\ lastOp.wrote
    /\ lastOp.op = "sync"
    /\ lastOp.read = Content(StaleDoc, FALSE)
    /\ canvasFile.doc.nodes[2].text # StaleDoc.nodes[2].text
    /\ canvasFile.doc.nodes[2].color = StaleDoc.nodes[2].color

\* the card a labelled group is associated with: the first node that names
\* the label (0 when there is none)
AssociatedCard(nodes, group) ==
    LET hits == { i \in 1..Len(nodes) : IsGroupTarget(nodes[i], group.label) }
    IN  IF hits = {} THEN 0 ELSE First(hits)

\* the group read at position g is labelled, has exactly one non-group
\* node's centre inside it, and differs in geometry from its associated card
Misfit(g) ==
    /\ TypeIs(ReadNodes[g], "group")
    /\ Has(ReadNodes[g], "label") /\ ReadNodes[g].label # <<>>
    /\ Cardinality(nodesInside(ReadNodes, ReadNodes[g])) = 1
    /\ AssociatedCard(ReadNodes, ReadNodes[g]) > 0
    /\ \E f \in Geometry :
         Get(ReadNodes[g], f) # Get(ReadNodes[AssociatedCard(ReadNodes, ReadNodes[g])], f)

\* C6: group geometry snap.  When adjustGroupsInCanvas has run on a canvas
\* in which a labelled group differs in (x, y, width, height) from its
\* associated card and exactly one non-group node's centre lies inside the
\* group, the file has been rewritten and the group's x, y, width and height
\* equal the card's.
C6_GroupSnap ==
    (lastOp.op = "adjust" /\ ReadHasNodes) =>
        \A g \in 1..Len(ReadNodes) :
            Misfit(g) =>
                /\ lastOp.wrote
                /\ \A f \in Geometry :
                     Get(canvasFile.doc.nodes[g], f)
                       = Get(canvasFile.doc.nodes[AssociatedCard(ReadNodes, ReadNodes[g])], f)
                /\ canvasFile.doc.nodes[AssociatedCard(ReadNodes, ReadNodes[g])]
                     = ReadNodes[AssociatedCard(ReadNodes, ReadNodes[g])]

C6_Witness ==
    /\ lastOp.op = "adjust"
    /\ ReadHasNodes
    /\ \E g \in 1..Len(ReadNodes) : Misfit(g)
    /\ lastOp.wrote

\* the last operation was addToCanvas (with group synthesis) for the note
\* 'note' with description 'Summary text' on a canvas with no nodes
CreateOnEmpty ==
    /\ variant = "grouped"
    /\ lastOp.op = "add"
    /\ lastOp.note = CardNote
    /\ DescContent(lastOp.ns) = <<"Summary text">>
    /\ lastOp.read.ok
    /\ ReadNodes = <<>>

\* what both readings of the end-to-end scenario share: the written nodes
\* are one group labelled 'note' and then one text node, the text node holds
\* 'Summary text', sits at the default offset (-300, -200) and is the card
\* the call returns, and the group has the card's geometry
CreatedPair ==
    LET nodes == canvasFile.doc.nodes
    IN  /\ lastOp.wrote
        /\ Len(nodes) = 2
        /\ TypeIs(nodes[1], "group") /\ nodes[1].label = <<"note">>
        /\ TypeIs(nodes[2], "text")
        /\ Includes(nodes[2].text, <<"Summary text">>)
        /\ nodes[2].x = R(-300) /\ nodes[2].y = R(-200)
        /\ \A f \in Geometry : Has(nodes[2], f) /\ Get(nodes[1], f) = nodes[2][f]
        /\ lastOp.ret = nodes[2].id

\* C7: end-to-end create on an empty canvas.  For the note 'note' with
\* description 'Summary text' and a canvas with no nodes, addToCanvas writes
\* exactly one text node, whose text holds the aliased self-link
\* '[[note|note]]' and 'Summary text', at the default offset, and exactly one
\* group labelled 'note' immediately before it with the same x, y, width and
\* height.
C7_CreateOnEmpty ==
    CreateOnEmpty =>
        /\ CreatedPair
        /\ Includes(canvasFile.doc.nodes[2].text,
                    LB \o <<"note", "|", "note">> \o RB)

C7_Witness ==
    /\ CreateOnEmpty
    /\ lastOp.read = Content(EmptyCanvas, TRUE)
    /\ lastOp.wrote

\* C7 as stated: the text node's text contains '[[note]]'
C7_AsStated ==
    CreateOnEmpty =>
        /\ CreatedPair
        /\ Includes(canvasFile.doc.nodes[2].text, LB \o <<"note">> \o RB)

\* C8: sync and adjust rewrite the canvas file if and only if a field
\* changed.  syncNodeInCanvas (text-only and size-syncing) and
\* adjustGroupsInCanvas call the vault write exactly when the document they
\* hold at their end differs from the document they parsed; the write stores
\* that document, and without a write the file is as it was read.
C8_WriteIffChanged ==
    lastOp.op \in {"sync", "adjust"} =>
        /\ IF ReadHasNodes
           THEN lastOp.wrote <=> lastOp.mem # lastOp.read.doc
           ELSE ~lastOp.wrote
        /\ IF lastOp.wrote
           THEN canvasFile = Content(lastOp.mem, TRUE)
           ELSE canvasFile = lastOp.read

C8_Witness ==
    /\ lastOp.op = "sync"
    /\ ReadHasNodes
    /\ lastOp.ret # NullId
    /\ ~lastOp.wrote
    /\ lastOp.read = canvasFile

----------------------------------------------------------------------------
(* Properties of the batch build and of the operations' failure paths      *)

\* the canvases buildCanvasIndex enumerated at its start
Enumerated == { build.list[i] : i \in 1..Len(build.list) }

HasEntry(f) == files[f].path \in DOMAIN canvasIndex

\* C11: buildCanvasIndex runs to completion however many canvases fail; when
\* it has completed without interleaved events, every enumerated canvas whose
\* content was read, parsed and traversed has an entry in canvasIndex, and
\* every canvas whose read, parse or traversal failed (text that is not JSON,
\* a rejected read, the JSON text `null`) has none.
C11_Contained ==
    /\ <>(build.pc = "done")
    /\ [](build.pc = "done" =>
            \A f \in Enumerated : HasEntry(f) <=> files[f].content.ok)

\* a completed build of six canvases in two batches: F1 is not JSON and has
\* no entry, F2 has references and has an entry
C11_Witness ==
    /\ build.pc = "done"
    /\ build.i = BATCH_SIZE
    /\ Len(build.list) = 6
    /\ files["F1"].content = BadJson /\ ~HasEntry("F1")
    /\ files["F2"].content.ok /\ HasEntry("F2")
    /\ files["F6"].content = ReadFailed /\ ~HasEntry("F6")

\* C11 as stated: every enumerated canvas whose content parses as JSON has an
\* entry once the build has completed.
C11_AsStated ==
    build.pc = "done" =>
        \A f \in Enumerated :
            (files[f].content.ok \/ files[f].content = NullJson) => HasEntry(f)

\* C12: when the canvas content is not valid JSON, addToCanvas and
\* syncNodeInCanvas each return no identifier, make no write to the canvas
\* file and show a notice.
C12_ParseErrorHandled ==
    (lastOp.op \in {"add", "sync"} /\ lastOp.read = BadJson) =>
        /\ lastOp.ret = NullId
        /\ lastOp.attempts = 0
        /\ canvasFile = lastOp.read
        /\ lastOp.notice # <<>>

\* the storage rejected the write of the last operation
WriteFailed == lastOp.attempts > 0 /\ ~lastOp.wrote

\* C13: when the write of addToCanvas, syncNodeInCanvas or
\* adjustGroupsInCanvas fails, the operation rejects, and it made exactly one
\* write attempt.
C13_WriteFailurePropagates ==
    WriteFailed => (lastOp.rejected /\ lastOp.attempts = 1)

\* the last operation was an addToCanvas that created a card
Created == lastOp.op = "add" /\ lastOp.wrote

\* the card a creating addToCanvas pushed: the last node of the file
CreatedCard == canvasFile.doc.nodes[Len(canvasFile.doc.nodes)]

\* every node has numbers for x, y and width
Positioned(nodes) ==
    \A i \in 1..Len(nodes) : \A f \in {"x", "y", "width"} :
        Has(nodes[i], f) /\ DOMAIN nodes[i][f] = {"n", "d"} /\ nodes[i][f].d > 0

RightEdge(n) == RAdd(n.x, n.width)

\* the maximum of x + width over the nodes
Rightmost(nodes) ==
    CHOOSE m \in { RightEdge(nodes[i]) : i \in 1..Len(nodes) } :
        \A i \in 1..Len(nodes) : RLeq(RightEdge(nodes[i]), m)

RECURSIVE TotalY(_)
TotalY(nodes) ==
    IF nodes = <<>> THEN R(0) ELSE RAdd(Head(nodes).y, TotalY(Tail(nodes)))

\* the arithmetic mean of the nodes' y
MeanY(nodes) == RDiv(TotalY(nodes), Len(nodes))

\* C14: when addToCanvas creates a card in a canvas that already has nodes,
\* the card's x is the maximum of x + width over the existing nodes plus 100
\* and its y is the mean of their y, wherever the nodes lie.
C14_Placement ==
    (Created /\ ReadNodes # <<>> /\ Positioned(ReadNodes)) =>
        /\ CreatedCard.x = RAdd(Rightmost(ReadNodes), R(100))
        /\ CreatedCard.y = MeanY(ReadNodes)

\* the cards of the note as the lookup is stated: a file node whose file is
\* the note's path, a text node whose text contains "[[" + basename
CardsOf(nodes, path) ==
    { i \in 1..Len(nodes) :
        \/ /\ TypeIs(nodes[i], "file")
           /\ Has(nodes[i], "file")
           /\ nodes[i].file = path
        \/ /\ TypeIs(nodes[i], "text")
           /\ Has(nodes[i], "text")
           /\ Includes(nodes[i].text, <<"[", "[">> \o Basename(path)) }

\* C15: on a canvas that parsed, addToCanvas appends a new card if and only
\* if no node is a card of the note; otherwise it makes no write and returns
\* the id of the first card of the note in the order of the node sequence.
C15_LookupGates ==
    (lastOp.op = "add" /\ lastOp.read.ok) =>
        IF CardsOf(ReadNodes, lastOp.note) = {}
        THEN /\ lastOp.wrote
             /\ Len(canvasFile.doc.nodes) > Len(ReadNodes)
             /\ TypeIs(CreatedCard, "text")
             /\ CreatedCard.id = lastOp.ret
             /\ CardsOf(canvasFile.doc.nodes, lastOp.note) = {Len(canvasFile.doc.nodes)}
        ELSE /\ ~lastOp.wrote
             /\ lastOp.attempts = 0
             /\ canvasFile = lastOp.read
             /\ lastOp.ret = ReadNodes[First(CardsOf(ReadNodes, lastOp.note))].id

\* addToCanvas on the canvas with two cards of the numbered note returned the
\* first of them and wrote nothing
C15_Witness ==
    /\ lastOp.op = "add"
    /\ lastOp.note = NumberedNote
    /\ lastOp.read = Content(LeftDoc, TRUE)
    /\ CardsOf(ReadNodes, lastOp.note) = {1, 2}
    /\ lastOp.ret = "t5"
    /\ ~lastOp.wrote

\* C16: when addToCanvas of the build with groups creates a card, on an empty
\* canvas or not, it appends exactly two nodes and leaves the others as they
\* were: a group whose label is the note's basename and whose x, y, width and
\* height are the card's, and immediately after it the card.
C16_GroupBeforeCard ==
    (Created /\ variant = "grouped") =>
        LET nodes == canvasFile.doc.nodes
            n     == Len(nodes)
        IN  /\ n = Len(ReadNodes) + 2
            /\ SubSeq(nodes, 1, n - 2) = ReadNodes
            /\ TypeIs(nodes[n - 1], "group")
            /\ nodes[n - 1].label = Basename(lastOp.note)
            /\ TypeIs(nodes[n], "text")
            /\ nodes[n].id = lastOp.ret
            /\ \A f \in Geometry : Get(nodes[n - 1], f) = Get(nodes[n], f)
            /\ \A i \in 1..n : (TypeIs(nodes[i], "group") /\ i > Len(ReadNodes))
                                   => i = n - 1

\* a card of the note was created on the canvas that held two cards of the
\* numbered note: the group is third, the card fourth
C16_Witness ==
    /\ Created
    /\ variant = "grouped"
    /\ lastOp.note = CardNote
    /\ lastOp.read = Content(LeftDoc, TRUE)
    /\ Len(canvasFile.doc.nodes) = 4
    /\ canvasFile.doc.nodes[3].type = "group"
    /\ canvasFile.doc.nodes[3].label = <<"note">>
    /\ canvasFile.doc.nodes[4].type = "text"
    /\ canvasFile.doc.nodes[3].x = R(100)
    /\ canvasFile.doc.nodes[4].x = R(100)

\* the position, in the nodes read, of the card syncNodeInCanvas matched; 0
\* when it matched none
MatchedAt == SyncTarget(ReadNodes, lastOp.note).at

\* the groups, in the nodes read, that carry the note's basename as label and
\* enclose the node at position c
EnclosingGroups(c) ==
    { i \in 1..Len(ReadNodes) :
        /\ TypeIs(ReadNodes[i], "group")
        /\ Has(ReadNodes[i], "label")
        /\ ReadNodes[i].label = Basename(lastOp.note)
        /\ Inside(ReadNodes[c], ReadNodes[i]) }

\* C17: when syncNodeInCanvas of the build with groups matches a card that
\* has no enclosing group labelled with the note's basename, the canvas
\* afterwards holds at index 0 a group with that label and with the card's
\* current x, y, width and height; when the card has such a group, no group
\* is added.
C17_GroupRepair ==
    (lastOp.op = "sync" /\ variant = "grouped" /\ ReadHasNodes /\ MatchedAt > 0) =>
        LET nodes == canvasFile.doc.nodes
        IN  IF EnclosingGroups(MatchedAt) = {}
            THEN /\ Len(nodes) = Len(ReadNodes) + 1
                 /\ TypeIs(nodes[1], "group")
                 /\ nodes[1].label = Basename(lastOp.note)
                 /\ \A f \in Geometry :
                        Get(nodes[1], f) = Get(nodes[MatchedAt + 1], f)
            ELSE Len(nodes) = Len(ReadNodes)

\* the text nodes, in the nodes read, that syncNodeInCanvas matches for the
\* note: their text contains "[[" + basename
MatchedTextCards ==
    { i \in 1..Len(ReadNodes) :
        /\ TypeIs(ReadNodes[i], "text")
        /\ Has(ReadNodes[i], "text")
        /\ Includes(ReadNodes[i].text, <<"[", "[">> \o Basename(lastOp.note)) }

\* C18: syncNodeInCanvas keeps every node it read, in order, behind at most
\* one new node, a group at the front (none in the size-syncing build).  It
\* changes no x or y, no node that is not a matched text card (so no file
\* node), and of a matched text card only the text and, in the size-syncing
\* build, width and height; the rest of the document is as read.
C18_SyncFrame ==
    (lastOp.op = "sync" /\ ReadHasNodes) =>
        LET nodes == canvasFile.doc.nodes
            k     == Len(nodes) - Len(ReadNodes)
        IN  /\ k \in {0, 1}
            /\ k = 1 => (variant = "grouped" /\ TypeIs(nodes[1], "group"))
            /\ SameExcept(canvasFile.doc, lastOp.read.doc, {"nodes"})
            /\ \A i \in 1..Len(ReadNodes) :
                 /\ Get(nodes[i + k], "x") = Get(ReadNodes[i], "x")
                 /\ Get(nodes[i + k], "y") = Get(ReadNodes[i], "y")
                 /\ IF i \in MatchedTextCards
                    THEN SameExcept(nodes[i + k], ReadNodes[i],
                                    IF variant = "sized"
                                    THEN {"text", "width", "height"}
                                    ELSE {"text"})
                    ELSE nodes[i + k] = ReadNodes[i]

\* a sync of the numbered note on the canvas with its two cards rewrote both
\* texts and put a group in front; the cards are where they were
C18_Witness ==
    /\ lastOp.op = "sync"
    /\ lastOp.wrote
    /\ lastOp.note = NumberedNote
    /\ lastOp.read = Content(LeftDoc, TRUE)
    /\ Len(canvasFile.doc.nodes) = 3
    /\ canvasFile.doc.nodes[1].type = "group"
    /\ canvasFile.doc.nodes[2].text # LeftDoc.nodes[1].text
    /\ canvasFile.doc.nodes[3].text # LeftDoc.nodes[2].text
    /\ canvasFile.doc.nodes[2].x = R(-500)
    /\ canvasFile.doc.nodes[3].x = R(-300)

\* n has numbers for x, y, width and height
HasBox(n) ==
    \A f \in Geometry : Has(n, f) /\ DOMAIN n[f] = {"n", "d"} /\ n[f].d > 0

\* the centre (x + width/2, y + height/2) of a lies in b's rectangle, the
\* edges included
CentreIn(a, b) ==
    /\ HasBox(a) /\ HasBox(b)
    /\ LET cx == RAdd(a.x, RDiv(a.width, 2))
           cy == RAdd(a.y, RDiv(a.height, 2))
       IN  /\ RLeq(b.x, cx) /\ RLeq(cx, RAdd(b.x, b.width))
           /\ RLeq(b.y, cy) /\ RLeq(cy, RAdd(b.y, b.height))

\* the non-group nodes, in the nodes read, whose centre lies in the group at g
CentresIn(g) ==
    { i \in 1..Len(ReadNodes) :
        ~TypeIs(ReadNodes[i], "group") /\ CentreIn(ReadNodes[i], ReadNodes[g]) }

\* C19: adjustGroupsInCanvas leaves x, y, width and height of every group
\* whose rectangle holds the centres of more than one non-group node as they
\* were, whatever the group's label.
C19_MultiCardUntouched ==
    (lastOp.op = "adjust" /\ ReadHasNodes) =>
        \A g \in 1..Len(ReadNodes) :
            (TypeIs(ReadNodes[g], "group") /\ Cardinality(CentresIn(g)) > 1) =>
                \A f \in Geometry :
                    Get(canvasFile.doc.nodes[g], f) = Get(ReadNodes[g], f)

\* the group of the numbered note holds the file node and the numbered
\* note's card, whose rectangle differs from the group's: it was not snapped
C19_Witness ==
    /\ lastOp.op = "adjust"
    /\ lastOp.read = Content(FileDoc, TRUE)
    /\ CentresIn(2) = {1, 3}
    /\ AssociatedCard(ReadNodes, ReadNodes[2]) = 3
    /\ canvasFile.doc.nodes[2].width = R(1000)
    /\ canvasFile.doc.nodes[3].width = R(100)

\* the last operation read a canvas of a group B = (0,0,100,100), its card A
\* and a probe P
ProbeRead ==
    /\ lastOp.op = "adjust"
    /\ lastOp.read.ok
    /\ Len(ReadNodes) = 3
    /\ ReadNodes[1] = GroupNode("B", <<"note">>, 0, 0, 100, 100)
    /\ ReadNodes[3].id = "P"

\* the centre of the probe read
ProbeCx == RAdd(ReadNodes[3].x, RDiv(ReadNodes[3].width, 2))
ProbeCy == RAdd(ReadNodes[3].y, RDiv(ReadNodes[3].height, 2))

\* C20: adjustGroupsInCanvas counts a non-group node as inside a group if and
\* only if the node's centre (x + width/2, y + height/2) satisfies
\* B.x <= cx <= B.x + B.width and B.y <= cy <= B.y + B.height, whatever the
\* node's size: with B = (0,0,100,100) the probe is counted, and B then left
\* alone as a group of two nodes, exactly when 0 <= cx <= 100 and
\* 0 <= cy <= 100; otherwise B is snapped to its card.
C20_Containment ==
    ProbeRead =>
        LET in == /\ RLeq(R(0), ProbeCx) /\ RLeq(ProbeCx, R(100))
                  /\ RLeq(R(0), ProbeCy) /\ RLeq(ProbeCy, R(100))
        IN  /\ Inside(ReadNodes[3], ReadNodes[1]) <=> in
            /\ (3 \in nodesInside(ReadNodes, ReadNodes[1])) <=> in
            /\ in => canvasFile.doc.nodes[1] = ReadNodes[1]
            /\ ~in => \A f \in Geometry :
                        canvasFile.doc.nodes[1][f] = ReadNodes[2][f]

\* a probe of 400 x 400 centred on the corner (100,100) was counted inside
\* and the group was left alone; its own rectangle reaches far outside
C20_Witness ==
    /\ ProbeRead
    /\ ProbeCx = R(100) /\ ProbeCy = R(100)
    /\ ReadNodes[3].width = R(400)
    /\ ReadNodes[3].x = R(-100)
    /\ Inside(ReadNodes[3], ReadNodes[1])
    /\ canvasFile.doc.nodes[1].width = R(100)
    /\ ~lastOp.wrote

----------------------------------------------------------------------------
(* Properties of measurement, identity and the index listeners             *)

\* the text addToCanvas measured for the card it created
MeasuredText == CreatedCard.text

InRange(w, text) == MinW(text) <= w /\ w <= MaxW(text)

\* C21: measureTextPrecisely makes at most 10 probes, and every width it
\* probes, and the width it chooses, lies in [minW, maxW], with
\* minW = max(CARD_MIN_WIDTH, title width + margin) and
\* maxW = max(CARD_MAX_WIDTH, 2 * minW).
C21_BisectionBounds ==
    (Created /\ variant = "grouped") =>
        /\ Len(BisectProbes(MeasuredText, 0, MinW(MeasuredText), MaxW(MeasuredText))) <= 10
        /\ \A k \in 1..BisectSteps :
             InRange(BisectProbes(MeasuredText, 0, MinW(MeasuredText),
                                  MaxW(MeasuredText))[k], MeasuredText)
        /\ InRange(Bisect(MeasuredText, 0, MinW(MeasuredText), MaxW(MeasuredText),
                          MinW(MeasuredText), -1), MeasuredText)

\* the nodes of the canvas file, when it parses
FileNodes == IF canvasFile.ok THEN NodesOf(canvasFile.doc) ELSE <<>>

\* the ids of the nodes are pairwise distinct
DistinctIds(nodes) ==
    \A i \in 1..Len(nodes), j \in 1..Len(nodes) :
        i # j => Get(nodes[i], "id") # Get(nodes[j], "id")

\* the last operation left every node it read with the id it had
IdsKept ==
    lastOp.wrote =>
        \A i \in 1..Len(ReadNodes) :
            Get(FileNodes[i + Shift], "id") = Get(ReadNodes[i], "id")

\* C22: on a canvas whose node ids were pairwise distinct, after any
\* sequence of addToCanvas, syncNodeInCanvas and adjustGroupsInCanvas the
\* node ids are still pairwise distinct, and no operation has changed the id
\* of a node that was there.
C22_NodeIdentity ==
    /\ DistinctIds(FileNodes)
    /\ IdsKept


\* The index after a rename handler: oldPath is no key, and newPath is a key
\* exactly if the content c parses, then mapped to the references of c
Moved(index, old, new, c) ==
    /\ old \notin DOMAIN index
    /\ c.ok => /\ new \in DOMAIN index
               /\ index[new] = ReferencedPaths(c.doc, new)
    /\ ~c.ok => new \notin DOMAIN index

\* A step that completes the rename handler of canvas f: the handler returns
\* at once (the new extension is not canvas), or its indexSingleCanvas call
\* completes
RenameReturns(f) ==
    /\ files[f].exists
    /\ Extension(files[f].path) = ".canvas"
    /\ files'[f].path # files[f].path
    /\ Extension(files'[f].path) # ".canvas"

RenameCompletes(f) ==
    /\ ixLast'.f = f
    /\ ixLast'.old # <<>>
    /\ Extension(ixLast'.old) = ".canvas"

\* C23: when the rename handler for a canvas renamed from oldPath to newPath
\* has completed, canvasIndex has no key oldPath, and it has key newPath
\* mapped to the references of the file's content if the content parses and
\* no key newPath if it does not.
C23_RenameMoves ==
    [][\A f \in DOMAIN files :
         /\ RenameReturns(f) =>
              Moved(canvasIndex', files[f].path, files'[f].path, files'[f].content)
         /\ RenameCompletes(f) =>
              Moved(canvasIndex', ixLast'.old, ixLast'.new, ixLast'.buf)]_vars


\* the last operation read a canvas that parses and has no nodes field
ReadNoNodes == lastOp.op # "none" /\ lastOp.read.ok /\ ~Has(lastOp.read.doc, "nodes")

\* what indexSingleCanvas leaves in an index for a canvas at path p whose
\* document is doc
IndexedAlone(p, doc) == IndexSet(<<>>, p, ReferencedPaths(doc, p))

BuildTasks == { t \in tasks : t.by = "build" }

\* the files of the batch at offset i of the enumerated list
BatchFiles(list, i) ==
    { list[k] : k \in { j \in 1..Len(list) : i < j /\ j <= i + 5 } }

\* at most five tasks are in flight, all of them of the current batch and one
\* per file; outside a batch none is; the build is done only when the last
\* batch has been started
BatchesInTurn ==
    /\ Cardinality(BuildTasks) <= 5
    /\ \A t \in BuildTasks : t.f \in BatchFiles(build.list, build.i)
    /\ \A t, u \in BuildTasks : t.f = u.f => t = u
    /\ build.pc # "batch" => BuildTasks = {}
    /\ build.pc = "done" => build.i + 5 >= Len(build.list)

\* a step that starts tasks starts the batch that follows the last one
\* started, one task for each of its files, with no task in flight
BatchStarts ==
    (BuildTasks' \ BuildTasks # {}) =>
        /\ BuildTasks = {}
        /\ build.pc \in {"idle", "yield"}
        /\ build'.pc = "batch"
        /\ build'.i = (IF build.pc = "idle" THEN 0 ELSE build.i + 5)
        /\ build.pc = "yield" => build'.list = build.list
        /\ { t.f : t \in BuildTasks' } = BatchFiles(build'.list, build'.i)

\* a batch is left for the wait if files remain and for the end if none does;
\* a batch is entered from the start or from the wait
WaitBetween ==
    /\ (build.pc = "batch" /\ build'.pc # "batch") =>
          /\ build'.i = build.i
          /\ build'.pc = (IF build.i + 5 < Len(build.list) THEN "yield" ELSE "done")
    /\ (build.pc # "batch" /\ build'.pc = "batch") => build.pc \in {"idle", "yield"}
    /\ build.pc = "yield" => build'.pc \in {"yield", "batch"}

\* a task that leaves the set is one indexSingleCanvas call completing
OneAtATime ==
    (BuildTasks \ BuildTasks' # {}) =>
        /\ Cardinality(BuildTasks \ BuildTasks') = 1
        /\ \A t \in BuildTasks \ BuildTasks' : ixLast'.f = t.f

\* C25: during buildCanvasIndex at most 5 of its indexing tasks are in flight
\* at any time, no task of a later batch starts before every task of the
\* preceding batch has completed, a wait separates consecutive batches and
\* none follows the last, and each canvas enumerated at start is indexed
\* exactly once.
C25_BatchProtocol ==
    /\ []BatchesInTurn
    /\ [][BatchStarts /\ WaitBetween /\ OneAtATime]_vars

\* the second batch of six canvases is in flight, the five tasks of the
\* first having completed
C25_Witness ==
    /\ build.pc = "batch"
    /\ build.i = 5
    /\ Len(build.list) = 6
    /\ { t.f : t \in BuildTasks } = {"F6"}


----------------------------------------------------------------------------
(* Properties of the note modify sweep and of the queries                  *)

\* a step of autoSyncToCanvases
SweepStep == sweep' # sweep

NoRepeat(seq) == \A i, j \in 1..Len(seq) : seq[i] = seq[j] => i = j

Range(seq) == { seq[i] : i \in 1..Len(seq) }

\* the event is taken up: the paths to visit are the keys whose set holds
\* the note's path now, each once
SweepCollects ==
    (SweepStep /\ sweep.pc # "loop") =>
        /\ NoRepeat(sweep'.related)
        /\ Range(sweep'.related) =
             { p \in DOMAIN canvasIndex : sweep'.note \in canvasIndex[p] }
        /\ sweep'.calls = <<>>

\* a pass invokes syncNodeInCanvas for its path exactly if a file is there
SweepVisits ==
    (SweepStep /\ sweep.pc = "loop") =>
        /\ sweep'.related = sweep.related
        /\ sweep'.note = sweep.note
        /\ sweep'.calls =
             IF \E f \in DOMAIN files :
                    files[f].exists /\ files[f].path = sweep.related[sweep.k]
             THEN Append(sweep.calls, sweep.related[sweep.k])
             ELSE sweep.calls

\* the invocations so far: of collected paths, none twice, in order; when
\* the sweep is done every collected path has had its pass
SweepCalls ==
    /\ NoRepeat(sweep.calls)
    /\ Range(sweep.calls) \subseteq { sweep.related[i] : i \in 1..(sweep.k - 1) }
    /\ sweep.pc = "done" => sweep.k = Len(sweep.related) + 1
    /\ sweep.pc = "loop" => sweep.k \in 1..Len(sweep.related)

\* C26: processing a modify event for a note does not itself add, remove or
\* replace any canvasIndex entry, and it invokes syncNodeInCanvas exactly
\* once for each canvas whose index set holds the note's path at the time of
\* the event and whose file still exists when its turn comes, and for no
\* other canvas.
C26_NoteModify ==
    /\ []SweepCalls
    /\ [][SweepStep => canvasIndex' = canvasIndex]_vars
    /\ [][SweepCollects /\ SweepVisits]_vars

\* a sweep over two canvases has ended: one was deleted before its turn and
\* was passed over, the other was synced
C26_Witness ==
    /\ sweep.pc = "done"
    /\ Len(sweep.related) = 2
    /\ Len(sweep.calls) = 1
    /\ \E f \in DOMAIN files : ~files[f].exists /\ files[f].path \notin Range(sweep.calls)


\* the last query was a scan for the note answer.in
Scanned == answer.fn = "scan"

ResultPaths == [i \in 1..Len(answer.out) |-> answer.out[i].path]

Reported(p, type) ==
    \E i \in 1..Len(answer.out) : answer.out[i].path = p /\ answer.out[i].type = type

\* the index set of p holds the note and the canvas file is there
Indexed(p, note) ==
    /\ p \in DOMAIN canvasIndex
    /\ note \in canvasIndex[p]
    /\ \E f \in DOMAIN files : files[f].exists /\ files[f].path = p

\* the files the field of a note names
LinkedBy(n, field) ==
    IF n \in DOMAIN fm
    THEN { resolveFile_Vault(parseLinks(fm[n][field])[i]) :
             i \in 1..Len(parseLinks(fm[n][field])) } \ {NULL}
    ELSE {}

\* the notes reachable from the notes S through up links, S included
RECURSIVE UpClosure(_)
UpClosure(S) ==
    IF UNION { LinkedBy(n, "up") : n \in S } \subseteq S THEN S
    ELSE UpClosure(S \cup UNION { LinkedBy(n, "up") : n \in S })

NamedAbove(p, note) == \E n \in UpClosure({note}) : p \in LinkedBy(n, "canvas")

\* C27: scanCanvasFiles yields at most one result per canvas; a canvas is
\* reported existing if and only if its index set holds the target note's
\* path and the canvas file exists; it is reported potential only if it is
\* not existing and the canvas field of the note, or of a note reachable
\* through up links, names it; no canvas is reported as both.
C27_Classification ==
    Scanned =>
        /\ NoRepeat(ResultPaths)
        /\ \A p \in DOMAIN canvasIndex \cup Range(ResultPaths) :
             /\ Reported(p, "existing") <=> Indexed(p, answer.in)
             /\ Reported(p, "potential") =>
                  (~Indexed(p, answer.in) /\ NamedAbove(p, answer.in))
             /\ ~(Reported(p, "existing") /\ Reported(p, "potential"))
        /\ \A i \in 1..Len(answer.out) : answer.out[i].type \in {"existing", "potential"}

\* a scan for B: the indexed canvas g/c, which B's own canvas field names as
\* well, is existing; f/c, named only by the note above B, is potential
C27_Witness ==
    /\ Scanned
    /\ answer.in = NoteB
    /\ answer.out = << [path |-> PathGC, type |-> "existing"],
                       [path |-> PathFC, type |-> "potential"] >>
    /\ PathGC \in LinkedBy(NoteB, "canvas")
    /\ PathFC \notin LinkedBy(NoteB, "canvas")
    /\ PathFC \in LinkedBy(NoteC, "canvas")


\* the last query was getNeighbors for the note answer.in
Asked == answer.fn = "neighbors"

\* the field of note n has a link whose file name is the name of `note`
Names(n, field, note) ==
    /\ n \in DOMAIN fm
    /\ \E link \in Range(parseLinks(fm[n][field])) :
          StripMd(SplitLast(link, "/")) = Basename(note)

BackRefs(note, field) == { n \in MdSet \ {note} : Names(n, field, note) }

LinkText == answer.in

\* a "[[" at p whose first "]]" at q follows on the same line
OpensAt(p) == p + 1 <= Len(LinkText) /\ LinkText[p] = "[" /\ LinkText[p + 1] = "["

ClosesAt(q) == q + 1 <= Len(LinkText) /\ LinkText[q] = "]" /\ LinkText[q + 1] = "]"

FirstClose(p) ==
    IF \E q \in (p + 2)..Len(LinkText) : ClosesAt(q)
    THEN CHOOSE q \in (p + 2)..Len(LinkText) :
            ClosesAt(q) /\ \A r \in (p + 2)..(q - 1) : ~ClosesAt(r)
    ELSE 0

Terminated(p) ==
    /\ OpensAt(p)
    /\ FirstClose(p) > 0
    /\ \A k \in (p + 2)..(FirstClose(p) - 1) : LinkText[k] # "NL"

\* the part of the occurrence at p before its first '|'
TargetAt(p) ==
    LET inner == SubSeq(LinkText, p + 2, FirstClose(p) - 1)
        bars  == { k \in 1..Len(inner) : inner[k] = "|" }
    IN  IF bars = {} THEN inner
        ELSE SubSeq(inner, 1, (CHOOSE k \in bars : \A j \in bars : k <= j) - 1)

\* the targets of the occurrences of the text from position p on, read
\* left to right; an occurrence without a target gives none
TargetsFrom[p \in 1..(Len(LinkText) + 2)] ==
    IF p > Len(LinkText) THEN <<>>
    ELSE IF Terminated(p)
    THEN (IF TargetAt(p) = <<>> THEN <<>> ELSE <<TargetAt(p)>>)
           \o TargetsFrom[FirstClose(p) + 2]
    ELSE TargetsFrom[p + 1]

\* C29: extractWikiLinks returns, for any text, exactly the targets of its
\* [[target]] and [[target|alias]] occurrences, the alias and '|' removed, in
\* order of appearance and with duplicates retained; an unterminated '[['
\* contributes no element.
C29_WikiLinks ==
    answer.fn = "links" =>
        /\ answer.out = TargetsFrom[1]
        /\ \A i \in 1..Len(answer.out) : ~Includes(answer.out[i], <<"|">>)
        /\ (~\E p \in 1..Len(LinkText) : Terminated(p)) => answer.out = <<>>

\* [[a]][[a]] followed by an unterminated [[a: the target a twice
C29_Witness ==
    /\ answer.fn = "links"
    /\ LinkText = LB \o <<"a">> \o RB \o LB \o <<"a">> \o RB \o LB \o <<"a">>
    /\ answer.out = << <<"a">>, <<"a">> >>


\* the entries of the field of the last parseLinks call
FieldEntries ==
    IF answer.in.k \in {"undefined", "null"} \/ answer.in = JStr(<<>>) \/ answer.in = JNum(0)
    THEN <<>>
    ELSE IF answer.in.k = "list" THEN answer.in.v ELSE <<answer.in>>

\* the places where the wiki-link pattern matches in s: "[[" at p, the first
\* "]]" after it at q, on one line
LinkSpans(s) ==
    { sp \in (1..Len(s)) \X (1..Len(s)) :
        /\ sp[2] >= sp[1] + 2 /\ sp[2] + 1 <= Len(s)
        /\ s[sp[1]] = "[" /\ s[sp[1] + 1] = "["
        /\ s[sp[2]] = "]" /\ s[sp[2] + 1] = "]"
        /\ \A k \in (sp[1] + 2)..(sp[2] - 1) :
             s[k] # "NL" /\ ~(s[k] = "]" /\ s[k + 1] = "]") }

\* what the first match captures, and its part before the first '|'
FirstCapture(s) ==
    LET sp == CHOOSE x \in LinkSpans(s) : \A y \in LinkSpans(s) : x[1] <= y[1]
    IN  SubSeq(s, sp[1] + 2, sp[2] - 1)

FirstTarget(s) ==
    LET bars == { k \in 1..Len(FirstCapture(s)) : FirstCapture(s)[k] = "|" }
    IN  IF bars = {} THEN FirstCapture(s)
        ELSE SubSeq(FirstCapture(s), 1, (CHOOSE k \in bars : \A j \in bars : k <= j) - 1)

\* what an entry yields as stated: the target if the pattern matches, else
\* the raw string; nothing for an entry that is no string
YieldStated(e) ==
    IF e.k # "str" THEN <<>>
    ELSE IF LinkSpans(e.v) # {} THEN <<FirstTarget(e.v)>>
    ELSE <<e.v>>

\* what an entry yields: the target if the pattern matches with a capture
\* that is not empty, else the raw string, and nothing if that is empty
Yield(e) ==
    IF e.k # "str" THEN <<>>
    ELSE IF LinkSpans(e.v) # {} /\ FirstCapture(e.v) # <<>>
    THEN (IF FirstTarget(e.v) = <<>> THEN <<>> ELSE <<FirstTarget(e.v)>>)
    ELSE (IF e.v = <<>> THEN <<>> ELSE <<e.v>>)

RECURSIVE Flatten(_)
Flatten(seqs) == IF seqs = <<>> THEN <<>> ELSE Head(seqs) \o Flatten(Tail(seqs))

\* C30: parseLinks, for a scalar or list field: every string entry in which
\* the wiki-link pattern matches with a capture that is not empty yields the
\* target of the first match with the alias discarded, every other string
\* entry yields the raw string, an entry whose result would be the empty
\* string yields nothing, non-string entries and null or absent values yield
\* nothing, and empty input yields the empty sequence; the order of the
\* entries is preserved.
C30_ParseLinks ==
    answer.fn = "parsed" =>
        answer.out = Flatten([i \in 1..Len(FieldEntries) |-> Yield(FieldEntries[i])])

\* the list of [[]] and [[a/b|c]]: the first is kept as it is, the second
\* gives a/b
C30_Witness ==
    /\ answer.fn = "parsed"
    /\ answer.in = JList(<< JStr(LB \o RB), JStr(LB \o <<"a", "/", "b", "|", "c">> \o RB) >>)
    /\ answer.out = << LB \o RB, <<"a", "/", "b">> >>

\* C30 as stated: every string entry that matches the pattern yields its
\* target, every other string entry the raw string.
C30_AsStated ==
    answer.fn = "parsed" =>
        answer.out = Flatten([i \in 1..Len(FieldEntries) |-> YieldStated(FieldEntries[i])])

----------------------------------------------------------------------------
(* Properties of calls that overlap on one canvas file                     *)

\* both calls returned after a write, caller a first, and caller b had read
\* the file before a wrote it
Overlapped(a, b) ==
    /\ ops.done = <<a, b>>
    /\ ops.call[a].wrote
    /\ ops.call[b].wrote
    /\ ops.call[b].behind

\* what a call changed: the nodes of the document it wrote that the text it
\* read did not have
ChangeOf(call) ==
    { n \in Range(call.mem.nodes) : n \notin Range(NodesOf(call.read.doc)) }

\* C31: the read-modify-write is unguarded: when two of addToCanvas,
\* syncNodeInCanvas and adjustGroupsInCanvas on one canvas have both read
\* before either writes, the later write goes through and the file then holds
\* the later writer's document; what the earlier writer changed for another
\* note (a card it added, a text it replaced, a group it moved) is not in it.
C31_LostUpdate ==
    \A a \in Callers, b \in Callers :
       Overlapped(a, b) =>
          /\ canvasFile = Content(ops.call[b].mem, TRUE)
          /\ ops.call[a].read = ops.call[b].read
          /\ ops.call[b].note # ops.call[a].note =>
                /\ ChangeOf(ops.call[a]) # {}
                /\ ChangeOf(ops.call[a]) \cap Range(canvasFile.doc.nodes) = {}
                /\ ops.call[a].op = "add" =>
                      CardsOf(canvasFile.doc.nodes, ops.call[a].note) = {}

\* addToCanvas added a card for one note, a call for another note that had
\* read before wrote after it, and the card is gone
C31_Witness ==
    \E a \in Callers, b \in Callers :
       /\ Overlapped(a, b)
       /\ ops.call[a].op = "add"
       /\ ops.call[b].op \in {"add", "sync"}
       /\ ops.call[b].note # ops.call[a].note
       /\ \E n \in ChangeOf(ops.call[a]) : n.id = ops.call[a].ret

\* no indexSingleCanvas call is pending and the build has come to its end
Quiet == tasks = {} /\ build.pc = "done"

\* the entry of the canvas file f is what its content yields: the references
\* of the parsed text, no entry for a text that does not parse
EntryCurrent(f) ==
    IF files[f].content.ok
    THEN /\ files[f].path \in DOMAIN canvasIndex
         /\ canvasIndex[files[f].path]
              = UNION { NodeRefs(n, files[f].path) : n \in Range(NodesOf(files[f].content.doc)) }
    ELSE files[f].path \notin DOMAIN canvasIndex

\* C32: the index converges: once the build and every indexSingleCanvas call
\* have completed, the entry of every existing canvas is the reference set of
\* the canvas's current content, however the calls for one canvas (from the
\* build, from modify events) interleave with the writes to it.
C32_Converges ==
    Quiet => \A f \in DOMAIN files :
                (files[f].exists /\ Extension(files[f].path) = ".canvas") => EntryCurrent(f)

\* a step that writes a file is a pass of the sweep's loop, on the canvas at
\* the path in turn and on no other file
WritesInTurn ==
    files' # files =>
       /\ sweep.pc = "loop"
       /\ \E f \in FileAt(sweep.related[sweep.k]) :
             /\ files'[f].content # files[f].content
             /\ \A g \in DOMAIN files \ {f} : files'[g] = files[g]

\* the loop never comes back to a path: it moves on by one path per pass
\* over the list the event collected, and the list names no path twice
LoopForward ==
    (sweep.pc = "loop" /\ sweep' # sweep) =>
       /\ sweep'.k = sweep.k + 1
       /\ sweep'.related = sweep.related
       /\ sweep'.note = sweep.note
       /\ NoRepeat(sweep.related)

\* a canvas modify handler that completes leaves the files, the notes and
\* the sweep as they are
ReindexOnly ==
    (\E t \in tasks : t \notin tasks') =>
       /\ files' = files
       /\ noteState' = noteState
       /\ sweep' = sweep

\* C33: the cascade of one note modify event quiesces: the sweep writes each
\* referencing canvas at most once, a canvas modify event it raises only
\* re-indexes (no canvas and no note is written), and the system reaches a
\* state in which the sweep has ended and no task is pending.
C33_CascadeQuiesces ==
    /\ [][WritesInTurn /\ LoopForward /\ ReindexOnly]_vars
    /\ (sweep.pc = "loop" \/ tasks # {}) ~> (sweep.pc # "loop" /\ tasks = {})

\* the sweep has called syncNodeInCanvas on two canvases, and the handler of
\* a modify event it raised was the last to complete
C33_Witness ==
    /\ sweep.pc = "done"
    /\ Len(sweep.calls) = 2
    /\ tasks = {}
    /\ ixLast # NoResume

----------------------------------------------------------------------------
(* Properties of runs of several reconciliation operations                 *)

\* adjustGroupsInCanvas has just run on the file a card-creating addToCanvas
\* left
AdjustedAfterCreate == lastOp.op = "adjust" /\ prevOp.created /\ lastOp.read.ok

\* the position of the group addToCanvas pushed, in the file adjust read:
\* the node before the last
PushedGroup == Len(lastOp.read.doc.nodes) - 1

\* C34: create leaves nothing for adjust to do: adjustGroupsInCanvas run
\* right after a card-creating addToCanvas leaves the group that addToCanvas
\* pushed as it was, with the x, y, width and height of the new card, also on
\* a canvas that holds nodes of other notes with the same basename.
C34_CreateThenAdjust ==
    AdjustedAfterCreate =>
       /\ canvasFile.doc.nodes[PushedGroup] = lastOp.read.doc.nodes[PushedGroup]
       /\ \A f \in Geometry :
             Get(canvasFile.doc.nodes[PushedGroup], f)
               = Get(canvasFile.doc.nodes[PushedGroup + 1], f)

\* the card text syncNodeInCanvas generates for the note of the last call
Regenerated ==
    IF variant = "grouped" THEN extractNodeText(lastOp.note, lastOp.ns)
    ELSE extractNodeText_main(lastOp.note, lastOp.ns)

\* the nodes the file holds that the last call had read: the file's nodes
\* without a group the call put in front
KeptNodes ==
    SubSeq(canvasFile.doc.nodes,
           Len(canvasFile.doc.nodes) - Len(ReadNodes) + 1, Len(canvasFile.doc.nodes))

SyncRepeated ==
    /\ lastOp.op = "sync"
    /\ lastOp'.op = "sync"
    /\ <<lastOp, prevOp>>' # <<lastOp, prevOp>>
    /\ lastOp'.note = lastOp.note
    /\ lastOp'.ns = lastOp.ns

\* C36: syncNodeInCanvas is idempotent on any canvas: a second run right
\* after a first, with the note and the canvas untouched in between and the
\* same text measurement, makes no write, and the file stays as it was.
C36_SyncIdempotent ==
    [][SyncRepeated => (~lastOp'.wrote /\ lastOp'.read = canvasFile /\ canvasFile' = canvasFile)]_vars

\* a first sync rewrote two cards and added the group; the second sync has
\* read that file and written nothing
C36_Witness ==
    /\ lastOp.op = "sync"
    /\ ~lastOp.wrote
    /\ lastOp.note = CardNote
    /\ lastOp.read.ok
    /\ Len(ReadNodes) = Len(PrefixDoc.nodes) + 1
    /\ ReadNodes[1].id \in IdPool
    /\ ReadNodes[2].id = "h1"
    /\ ReadNodes[2].text = ReadNodes[4].text

\* this step is an adjustGroupsInCanvas call that follows an
\* adjustGroupsInCanvas call
AdjustRepeated ==
    /\ lastOp.op = "adjust"
    /\ lastOp'.op = "adjust"
    /\ <<lastOp, prevOp>>' # <<lastOp, prevOp>>

\* C37: adjustGroupsInCanvas is idempotent: a second run right after a first
\* makes no write and changes no geometry, although the first run's snapping
\* may have changed which centres each group contains.
C37_AdjustIdempotent ==
    [][AdjustRepeated => (~lastOp'.wrote /\ lastOp'.read = canvasFile /\ canvasFile' = canvasFile)]_vars

\* the first run moved the group 'note' of the loose canvas, which held no
\* centre, onto its card; the second run has read that file, in which the
\* group holds the card's centre, and written nothing
C37_Witness ==
    /\ lastOp.op = "adjust"
    /\ ~lastOp.wrote
    /\ lastOp.read.ok
    /\ Len(ReadNodes) = 3
    /\ ReadNodes[1].id = "g3"
    /\ ReadNodes[2].id = "t3"
    /\ nodesInside(LooseDoc.nodes, LooseDoc.nodes[1]) = {}
    /\ nodesInside(ReadNodes, ReadNodes[1]) = {2}
    /\ \A f \in Geometry : ReadNodes[1][f] = ReadNodes[2][f]

\* the node is a card of the label, as the adjustment pass looks for it: a
\* file node whose file name without .md is the label, a text node that links
\* the label
CardOfLabel(n, label) ==
    \/ /\ TypeIs(n, "file") /\ Has(n, "file")
       /\ StripMd(SplitLast(n.file, "/")) = label
    \/ /\ TypeIs(n, "text") /\ Has(n, "text")
       /\ \/ Includes(n.text, <<"[", "[">> \o label \o <<"]", "]">>)
          \/ Includes(n.text, <<"[", "[">> \o label \o <<"|">>)

\* C38: frame of adjust: adjustGroupsInCanvas changes only x, y, width and
\* height of group nodes.  It adds, removes and reorders no node, changes no
\* node that is not a group, no group without a label or without a matching
\* card, and no group's label or id; the rest of the document is as read.
C38_AdjustFrame ==
    (lastOp.op = "adjust" /\ ReadHasNodes) =>
       /\ SameExcept(canvasFile.doc, lastOp.read.doc, {"nodes"})
       /\ Len(canvasFile.doc.nodes) = Len(ReadNodes)
       /\ \A i \in 1..Len(ReadNodes) :
            IF /\ TypeIs(ReadNodes[i], "group")
               /\ Has(ReadNodes[i], "label")
               /\ ReadNodes[i].label # <<>>
               /\ \E j \in 1..Len(ReadNodes) : CardOfLabel(ReadNodes[j], ReadNodes[i].label)
            THEN SameExcept(canvasFile.doc.nodes[i], ReadNodes[i], Geometry)
            ELSE canvasFile.doc.nodes[i] = ReadNodes[i]

\* the pass moved the group 'note' onto its card and left the group 'old',
\* which has no card, the card, the edge and the moved group's id and label
\* alone
C38_Witness ==
    /\ lastOp.op = "adjust"
    /\ lastOp.wrote
    /\ lastOp.read = Content(OrphanDoc, TRUE)
    /\ canvasFile.doc.nodes[1] = OrphanDoc.nodes[1]
    /\ canvasFile.doc.nodes[2] # OrphanDoc.nodes[2]
    /\ canvasFile.doc.nodes[2].id = "g10"
    /\ canvasFile.doc.nodes[2].label = <<"note">>
    /\ canvasFile.doc.nodes[2].x = R(100)
    /\ canvasFile.doc.nodes[3] = OrphanDoc.nodes[3]
    /\ canvasFile.doc.edges = OrphanDoc.edges

\* a pass of the loop whose canvas is gone, or whose syncNodeInCanvas call
\* raised
PassFailed ==
    /\ sweep.pc = "loop"
    /\ sweep' # sweep
    /\ \/ sweep'.caught # sweep.caught
       \/ FileAt(sweep.related[sweep.k]) = {}

\* C39: autoSyncToCanvases contains failures per canvas: when syncNodeInCanvas
\* fails for a referencing canvas (its write is rejected) or the canvas no
\* longer exists, the loop goes on with the next path, so that at the end
\* every collected canvas that exists has had its syncNodeInCanvas call, and
\* autoSyncToCanvases ends without raising.
C39_FailuresContained ==
    /\ [](sweep.pc \in {"idle", "loop", "done"})
    /\ [][PassFailed =>
            /\ sweep'.k = sweep.k + 1
            /\ sweep'.pc = IF sweep.k < Len(sweep.related) THEN "loop" ELSE "done"]_vars
    /\ [](sweep.pc = "done" =>
            \A i \in 1..Len(sweep.related) :
               \/ sweep.related[i] \in Range(sweep.calls)
               \/ FileAt(sweep.related[i]) = {})

\* the write to the first of two canvases was rejected and logged, and the
\* second was synced all the same: the sweep has ended
C39_Witness ==
    /\ sweep.pc = "done"
    /\ Len(sweep.related) = 2
    /\ sweep.caught = << sweep.related[1] >>
    /\ sweep.calls = sweep.related
    /\ \E f \in FileAt(sweep.related[2]) : files[f].content.tab

\* a search is running or has returned
Searching == answer.fn \in {"search", "potentials"}

\* C40: findPotentialCanvases terminates on every up link graph, cycles and
\* notes with several parents included: it takes each note from the queue at
\* most once, it returns, and every canvas it returns is named by the canvas
\* field of the start note or of a note reachable from it through up links.
C40_SearchTerminates ==
    /\ [](Searching =>
            /\ NoRepeat(answer.dequeued)
            /\ \A i \in 1..Len(answer.out) : NamedAbove(answer.out[i], answer.in))
    /\ (answer.fn = "search") ~> (answer.fn = "potentials")

\* a search from B, which names no canvas, has returned on a graph in which
\* B and C name each other and 'note' is a parent of B: each of the three was
\* taken from the queue, and the canvases of C and of 'note' are returned
C40_Witness ==
    /\ answer.fn = "potentials"
    /\ answer.in = NoteB
    /\ NoteB \in LinkedBy(NoteC, "up")
    /\ {CardNote, NoteC} \subseteq LinkedBy(NoteB, "up")
    /\ {NoteB, NoteC, CardNote} \subseteq Range(answer.dequeued)
    /\ {PathFC, PathGC} \subseteq Range(answer.out)

=============================================================================
